---- MODULE Spec2Model ----
(***************************************************************************)
(* A model of the metrics aggregation and access-log parsing of the        *)
(* maas-billing backend: MetricsService (services/metricsService.ts) and   *)
(* the routes of routes/metrics.ts.                                        *)
(*                                                                         *)
(* JavaScript numbers are modelled as integers plus NaN, strings that are  *)
(* parsed as sequences of one-character strings.                           *)
(***************************************************************************)
EXTENDS Integers, Sequences, FiniteSets, TLC

VARIABLES
  fetch,               \* fetchFromPrometheus: one activation record per query
  istioRequests,       \* fetchPrometheusMetrics: the three awaited result sets
  limitadorRejected,
  authorinoResponses,
  aggregate,           \* fetchPrometheusMetrics: its return value
  metrics,             \* the argument of sumMetricValues / groupMetricsByNamespace
  summed,              \* their results for that argument
  logs,                \* parseAccessLogs: the log blob
  entries,             \* parseAccessLogs: its return value
  prometheusResult,    \* GET /dashboard: the three settled promises
  liveRequestsResult,
  statusResult,
  response,            \* GET /dashboard: the response sent
  liveCall,            \* getRealLiveRequests: one activation record
  statusCall,          \* getMetricsStatus: one activation record
  policyCall,          \* KuadrantService: one activation record per policy kind
  proxyCall,           \* POST /chat/completions: one request
  routeCall,           \* the routes of routes/metrics.ts: one request
  liveHook,            \* useLiveRequests: the state of the hook and its fetches
  statsHook,           \* useDashboardStats: the state of the hook and its fetches
  simRun               \* RequestSimulator: its state and its simulation loops

fetchVars == <<fetch>>
aggVars   == <<istioRequests, limitadorRejected, authorinoResponses, aggregate>>
sumVars   == <<metrics, summed>>
parseVars == <<logs, entries>>
dashVars  == <<prometheusResult, liveRequestsResult, statusResult, response>>
callVars  == <<liveCall, statusCall, policyCall, proxyCall, routeCall>>
uiVars    == <<liveHook, statsHook, simRun>>
vars == <<fetch, istioRequests, limitadorRejected, authorinoResponses, aggregate,
          metrics, summed, logs, entries,
          prometheusResult, liveRequestsResult, statusResult, response,
          liveCall, statusCall, policyCall, proxyCall, routeCall,
          liveHook, statsHook, simRun>>

(***************************************************************************)
(* Bounds of the model.                                                    *)
(***************************************************************************)
MaxSamples == 2        \* samples in the list given to sumMetricValues
MaxQuerySamples == 1   \* samples in each result set of fetchPrometheusMetrics
MaxLogTokens == 4      \* tokens in a log blob
MaxLive == 2           \* entries in the live-request list of the dashboard
MaxSum == 1            \* largest sum in a Prometheus aggregate of the dashboard

(***************************************************************************)
(* JavaScript values.                                                      *)
(***************************************************************************)
\* A JavaScript number: an integer or NaN.
Num(n) == [nan |-> FALSE, v |-> n]
NaN == [nan |-> TRUE, v |-> 0]

\* a + b and a - b
Add(a, b) == IF a.nan \/ b.nan THEN NaN ELSE Num(a.v + b.v)
Sub(a, b) == IF a.nan \/ b.nan THEN NaN ELSE Num(a.v - b.v)

\* a < b, a > b and a === b: every comparison with NaN is false
Lt(a, b) == ~a.nan /\ ~b.nan /\ a.v < b.v
Gt(a, b) == ~a.nan /\ ~b.nan /\ a.v > b.v
StrictEq(a, b) == ~a.nan /\ ~b.nan /\ a.v = b.v

\* A string is a sequence of characters; undefined is a value apart.
Undefined == <<"undefined">>
Truthy(s) == s # Undefined /\ s # <<>>

Digits == {"0", "1", "2", "3", "4", "5", "6", "7", "8", "9"}
DigitVal(c) ==
  CASE c = "0" -> 0 [] c = "1" -> 1 [] c = "2" -> 2 [] c = "3" -> 3 [] c = "4" -> 4
    [] c = "5" -> 5 [] c = "6" -> 6 [] c = "7" -> 7 [] c = "8" -> 8 [] c = "9" -> 9

RECURSIVE DigitPrefix(_, _)
\* the value of the longest prefix of s made of digits, acc being the value so far
DigitPrefix(s, acc) ==
  IF s = <<>> \/ Head(s) \notin Digits THEN acc
  ELSE DigitPrefix(Tail(s), 10 * acc + DigitVal(Head(s)))

\* parseFloat(s) and parseInt(s) of a string without sign, point or exponent:
\* the number its longest digit prefix denotes, NaN when that prefix is empty.
\* String(undefined) is "undefined", which has no digit prefix.
parseFloat(s) ==
  IF s = Undefined \/ s = <<>> \/ Head(s) \notin Digits THEN NaN
  ELSE Num(DigitPrefix(s, 0))
parseInt(s) == parseFloat(s)

(***************************************************************************)
(* Metric samples: one element of a Prometheus result set,                 *)
(* {metric: {label: string}, value: [ts, string]}.  value is value[1].     *)
(***************************************************************************)
Sample(statusCode, result, namespace, value) ==
  [metric |-> [status_code |-> statusCode, result |-> result, namespace |-> namespace],
   value |-> value]

\* Sample value strings: missing, empty, numeric, not numeric, numeric prefix.
ValueStrs == {Undefined, <<>>, <<"1">>, <<"2">>, <<"a">>, <<"1", "a">>}
QueryValueStrs == {Undefined, <<"1">>, <<"2">>, <<"a">>}

\* All sequences over S of length at most n.
SeqsUpTo(S, n) == UNION {[1..k -> S] : k \in 0..n}

(***************************************************************************)
(* fetchFromPrometheus(query): the endpoints are tried in a for loop, one  *)
(* await of axios.get per iteration.  A step of the model runs the code    *)
(* from one await to the next.                                             *)
(***************************************************************************)
prometheusEndpoints == <<"thanos-querier", "prometheus-k8s", "prometheus-user-workload">>

\* The three queries fetchPrometheusMetrics issues with Promise.all.
Queries == {"istio_requests_total", "limitador_limit_checks_total", "http_requests_total"}

\* What one axios.get can settle with.  error and timeout reject the promise;
\* nonsuccess is a body that is empty or whose status is not "success";
\* malformed is {status: "success"} without data; success carries data.result,
\* which may be missing.
FailKinds == {"error", "timeout", "nonsuccess", "malformed"}
ResultSets == {<<>>, <<Sample(Undefined, Undefined, Undefined, <<"1">>)>>}
Responses ==
  {[kind |-> k, hasResult |-> FALSE, result |-> <<>>] : k \in FailKinds}
  \cup {[kind |-> "success", hasResult |-> FALSE, result |-> <<>>]}
  \cup {[kind |-> "success", hasResult |-> TRUE, result |-> r] : r \in ResultSets}
NoResponse == [kind |-> "none", hasResult |-> FALSE, result |-> <<>>]

\* Variant: the loop body without the try/catch around it.
IterationOutcomeNoCatch(r) ==
  IF r.kind = "success" THEN "return"
  ELSE IF r.kind = "nonsuccess" THEN "continue" ELSE "throw"

\* Variant: a success wrapper without a result set does not end the loop.
IterationOutcomeNeedsResult(r) ==
  IF r.kind = "success" /\ r.hasResult THEN "return" ELSE "continue"

\* The body of one loop iteration after the await: "return" (line 156), "continue"
\* (the condition of line 155 is false, or the catch of line 158 ran) or "throw".
\* error and timeout throw at line 150, malformed throws at line 156 reading
\* .result of undefined; all three are caught at line 158.
IterationOutcome(r) ==
  IF r.kind = "success" THEN "return" ELSE "continue"

\* response.data.data.result || []
ReturnedResult(r) == IF r.hasResult THEN r.result ELSE <<>>

IdleFetch ==
  [pc |-> "idle", attempts |-> <<>>, outcomes |-> <<>>, inflight |-> {},
   response |-> NoResponse, ret |-> <<>>]

\* The call: the loop starts and axios.get is issued to the first endpoint.
CallFetchFromPrometheus(q) ==
  /\ fetch[q].pc = "idle"
  /\ fetch' = [fetch EXCEPT ![q] =
       [@ EXCEPT !.pc = "awaiting",
                 !.attempts = <<prometheusEndpoints[1]>>,
                 !.inflight = {prometheusEndpoints[1]}]]
  /\ UNCHANGED <<aggVars, sumVars, parseVars, dashVars, callVars, uiVars>>

\* The awaited axios.get settles with r: the call returns the result, or goes on
\* to the next endpoint, or (the list exhausted) logs and returns [].
SettleRequest(q, r) ==
  /\ fetch[q].pc = "awaiting"
  /\ LET f == fetch[q]
         i == Len(f.attempts)
         settled == [f EXCEPT !.inflight = @ \ {prometheusEndpoints[i]},
                              !.response = r,
                              !.outcomes = Append(@, IF r.kind = "success" THEN "ok" ELSE "fail")]
         o == IterationOutcome(r)
     IN fetch' = [fetch EXCEPT ![q] =
          CASE o = "return" ->
                 [settled EXCEPT !.pc = "returned", !.ret = ReturnedResult(r)]
            [] o = "throw" ->
                 [settled EXCEPT !.pc = "threw"]
            [] o = "continue" /\ i < Len(prometheusEndpoints) ->
                 [settled EXCEPT !.attempts = Append(@, prometheusEndpoints[i + 1]),
                                 !.inflight = @ \cup {prometheusEndpoints[i + 1]}]
            [] OTHER ->
                 [settled EXCEPT !.pc = "returned", !.ret = <<>>]]
  /\ UNCHANGED <<aggVars, sumVars, parseVars, dashVars, callVars, uiVars>>

NextFetch ==
  \/ \E q \in Queries : CallFetchFromPrometheus(q)
  \/ \E q \in Queries, r \in Responses : SettleRequest(q, r)

(***************************************************************************)
(* sumMetricValues and groupMetricsByNamespace.                            *)
(***************************************************************************)
\* metric.value?.[1] || '0'
ValueOrZero(v) == IF Truthy(v) THEN v ELSE <<"0">>

RECURSIVE SumFrom(_, _)
\* metrics.reduce((sum, metric) => sum + parseFloat(...), sum)
SumFrom(ms, sum) ==
  IF ms = <<>> THEN sum
  ELSE SumFrom(Tail(ms), Add(sum, parseFloat(ValueOrZero(Head(ms).value))))

sumMetricValues(ms) == SumFrom(ms, Num(0))

\* n || 0 for a number n: NaN and 0 are falsy
OrZero(n) == IF n.nan \/ n.v = 0 THEN Num(0) ELSE n

\* metric.metric?.namespace || 'unknown'
NamespaceOf(m) ==
  IF Truthy(m.metric.namespace) THEN m.metric.namespace ELSE <<"unknown">>

\* byNamespace.get(ns): undefined when the key is absent, and undefined || 0 is 0
MapGetOrZero(map, ns) == IF ns \in DOMAIN map THEN OrZero(map[ns]) ELSE Num(0)

\* byNamespace.set(ns, n)
MapSet(map, ns, n) == [k \in DOMAIN map \cup {ns} |-> IF k = ns THEN n ELSE map[k]]

RECURSIVE GroupFrom(_, _)
\* metrics.forEach(metric => byNamespace.set(ns, (byNamespace.get(ns) || 0) + value))
GroupFrom(ms, byNamespace) ==
  IF ms = <<>> THEN byNamespace
  ELSE LET ns == NamespaceOf(Head(ms))
           value == parseFloat(ValueOrZero(Head(ms).value))
       IN GroupFrom(Tail(ms), MapSet(byNamespace, ns, Add(MapGetOrZero(byNamespace, ns), value)))

EmptyMap == [k \in {} |-> Num(0)]
groupMetricsByNamespace(ms) == GroupFrom(ms, EmptyMap)

\* The samples sumMetricValues and groupMetricsByNamespace are applied to.
Namespaces == {Undefined, <<"a">>, <<"b">>}
SumSamples == {Sample(Undefined, Undefined, ns, v) : ns \in Namespaces, v \in ValueStrs}

NotSummed == [done |-> FALSE, sum |-> Num(0), byNamespace |-> EmptyMap]

\* A sample of the result set arrives.
AppendMetric(s) ==
  /\ ~summed.done
  /\ Len(metrics) < MaxSamples
  /\ metrics' = Append(metrics, s)
  /\ UNCHANGED <<summed, fetchVars, aggVars, parseVars, dashVars, callVars, uiVars>>

\* The two aggregations are applied to the result set.
ApplySum ==
  /\ ~summed.done
  /\ summed' = [done |-> TRUE, sum |-> sumMetricValues(metrics),
                byNamespace |-> groupMetricsByNamespace(metrics)]
  /\ UNCHANGED <<metrics, fetchVars, aggVars, parseVars, dashVars, callVars, uiVars>>

NextSum ==
  \/ \E s \in SumSamples : AppendMetric(s)
  \/ ApplySum

(***************************************************************************)
(* fetchPrometheusMetrics: Promise.all of three fetchFromPrometheus calls, *)
(* then the aggregation of the three result sets.                          *)
(***************************************************************************)
\* What an awaited fetchFromPrometheus call resolved with: data.result as the
\* endpoint sent it, an array of samples or (truthy) not an array.
Pending == [state |-> "pending", items |-> <<>>]
ArrayResult(ms) == [state |-> "array", items |-> ms]
NotArrayResult == [state |-> "notArray", items |-> <<>>]

\* m.metric?.status_code && parseInt(m.metric.status_code) === 401
IsAuthFailure(m) ==
  Truthy(m.metric.status_code) /\ StrictEq(parseInt(m.metric.status_code), Num(401))
\* m.metric?.result === 'over_limit'
IsOverLimit(m) == m.metric.result = <<"over_limit">>

\* The return value: null, or the aggregate object.
Null ==
  [isNull |-> TRUE, totalRequests |-> Num(0), successRequests |-> Num(0),
   authFailedRequests |-> Num(0), rateLimitedRequests |-> Num(0),
   authByNamespace |-> EmptyMap, limitsByNamespace |-> EmptyMap]

\* const successRequests = totalRequests - authFailedRequests - rateLimitedRequests
SuccessRequests(totalRequests, authFailedRequests, rateLimitedRequests) ==
  Sub(Sub(totalRequests, authFailedRequests), rateLimitedRequests)

\* The object returned at lines 115-122 from the three sums and the two groupings.
PrometheusAggregate(totalRequests, authFailedRequests, rateLimitedRequests, authNs, limitNs) ==
  [isNull |-> FALSE,
   totalRequests |-> totalRequests,
   successRequests |-> SuccessRequests(totalRequests, authFailedRequests, rateLimitedRequests),
   authFailedRequests |-> authFailedRequests,
   rateLimitedRequests |-> rateLimitedRequests,
   authByNamespace |-> authNs,
   limitsByNamespace |-> limitNs]

\* The body of the try block after the await; reduce and filter of a value that
\* is not an array throw a TypeError, which the catch turns into null.
AggregateOf(istio, limitador, authorino) ==
  IF istio.state # "array" \/ limitador.state # "array" \/ authorino.state # "array"
  THEN Null
  ELSE PrometheusAggregate(
         sumMetricValues(istio.items),
         sumMetricValues(SelectSeq(authorino.items, IsAuthFailure)),
         sumMetricValues(SelectSeq(limitador.items, IsOverLimit)),
         groupMetricsByNamespace(authorino.items),
         groupMetricsByNamespace(limitador.items))

IstioSamples == {Sample(Undefined, Undefined, Undefined, v) : v \in QueryValueStrs}
AuthorinoSamples ==
  {Sample(sc, Undefined, Undefined, v) : sc \in {<<"4", "0", "1">>, <<"2", "0", "0">>},
                                         v \in QueryValueStrs}
LimitadorSamples ==
  {Sample(Undefined, r, Undefined, v) : r \in {<<"over_limit">>, <<"within_limit">>},
                                        v \in QueryValueStrs}
QueryResults(S) == {NotArrayResult} \cup {ArrayResult(ms) : ms \in SeqsUpTo(S, MaxQuerySamples)}

NotAggregated == [done |-> FALSE, value |-> Null]

\* One of the three concurrent fetchFromPrometheus calls resolves.
ResolveIstio(res) ==
  /\ istioRequests = Pending
  /\ istioRequests' = res
  /\ UNCHANGED <<limitadorRejected, authorinoResponses, aggregate,
                 fetchVars, sumVars, parseVars, dashVars, callVars, uiVars>>

ResolveLimitador(res) ==
  /\ limitadorRejected = Pending
  /\ limitadorRejected' = res
  /\ UNCHANGED <<istioRequests, authorinoResponses, aggregate,
                 fetchVars, sumVars, parseVars, dashVars, callVars, uiVars>>

ResolveAuthorino(res) ==
  /\ authorinoResponses = Pending
  /\ authorinoResponses' = res
  /\ UNCHANGED <<istioRequests, limitadorRejected, aggregate,
                 fetchVars, sumVars, parseVars, dashVars, callVars, uiVars>>

\* Promise.all has resolved: the rest of fetchPrometheusMetrics runs.
AggregateResults ==
  /\ ~aggregate.done
  /\ istioRequests # Pending /\ limitadorRejected # Pending /\ authorinoResponses # Pending
  /\ aggregate' = [done |-> TRUE,
                   value |-> AggregateOf(istioRequests, limitadorRejected, authorinoResponses)]
  /\ UNCHANGED <<istioRequests, limitadorRejected, authorinoResponses,
                 fetchVars, sumVars, parseVars, dashVars, callVars, uiVars>>

NextAgg ==
  \/ \E res \in QueryResults(IstioSamples) : ResolveIstio(res)
  \/ \E res \in QueryResults(LimitadorSamples) : ResolveLimitador(res)
  \/ \E res \in QueryResults(AuthorinoSamples) : ResolveAuthorino(res)
  \/ AggregateResults

(***************************************************************************)
(* parseAccessLogs.  A log blob is a sequence of tokens: the line break,   *)
(* a blank, a lone brace, a run of other characters, the text of a whole   *)
(* JSON object, or a whole access-log record in common log format.         *)
(***************************************************************************)
NL == "\n"
WS == " "
LB == "{"
RB == "}"
Junk == "x"

ObjSc200 == "{\"status_code\":\"200\"}"
ObjSc401 == "{\"status_code\":\"401\",\"request_id\":\"abc\"}"
ObjSt200 == "{\"status\":\"200\"}"
ObjEmpty == "{\"request_id\":\"\",\"requestId\":\"r1\",\"status_code\":\"\",\"status\":\"503\"}"
ObjTokens == {ObjSc200, ObjSc401, ObjSt200, ObjEmpty}

Clf200 == "10.0.0.1 - - [10/Oct/2020:13:55:36] \"GET /v1/chat/completions HTTP/1.1\" 200 123"
Clf404 == "10.0.0.2 - - [10/Oct/2020:13:55:37] \"POST /v1/models HTTP/1.1\" 404 -"
ClfTokens == {Clf200, Clf404}

LogTokens == {NL, WS, LB, RB, Junk} \cup ObjTokens \cup ClfTokens

\* The object JSON.parse gives for the text of an object token: its keys and
\* their (string) values.
JSONObjectOf(tok) ==
  CASE tok = ObjSc200 -> [status_code |-> <<"2", "0", "0">>]
    [] tok = ObjSc401 -> [status_code |-> <<"4", "0", "1">>, request_id |-> <<"a", "b", "c">>]
    [] tok = ObjSt200 -> [status |-> <<"2", "0", "0">>]
    [] tok = ObjEmpty -> [request_id |-> <<>>, requestId |-> <<"r", "1">>,
                          status_code |-> <<>>, status |-> <<"5", "0", "3">>]
EmptyObject == [k \in {} |-> <<>>]

\* The groups the regular expression of parseCommonLogFormat captures in the
\* text of a common-log-format token.
ClfGroupsOf(tok) ==
  CASE tok = Clf200 ->
         [sourceIP |-> "10.0.0.1", method |-> <<"GET">>, path |-> <<"/v1/chat/completions">>,
          statusCode |-> <<"2", "0", "0">>]
    [] tok = Clf404 ->
         [sourceIP |-> "10.0.0.2", method |-> <<"POST">>, path |-> <<"/v1/models">>,
          statusCode |-> <<"4", "0", "4">>]

\* line.includes('{') and line.includes('}')
HasOpen(tok) == tok = LB \/ tok \in ObjTokens
HasClose(tok) == tok = RB \/ tok \in ObjTokens
IncludesOpen(line) == \E i \in 1..Len(line) : HasOpen(line[i])
IncludesClose(line) == \E i \in 1..Len(line) : HasClose(line[i])

RECURSIVE Split(_, _)
\* logs.split('\n'): cur is the line being read
Split(toks, cur) ==
  IF toks = <<>> THEN <<cur>>
  ELSE IF Head(toks) = NL THEN <<cur>> \o Split(Tail(toks), <<>>)
  ELSE Split(Tail(toks), Append(cur, Head(toks)))

\* line.trim() is truthy: the line has a character that is not white space
NotBlank(line) == \E i \in 1..Len(line) : line[i] # WS

\* line.match(/\{.*\}/): from the first '{' to the last '}' behind it ('.*' is
\* greedy); no match when no '}' follows the first '{'.
JsonMatch(line) ==
  LET first == CHOOSE i \in 1..Len(line) :
                 HasOpen(line[i]) /\ \A j \in 1..(i - 1) : ~HasOpen(line[j])
      last == CHOOSE i \in 1..Len(line) :
                 HasClose(line[i]) /\ \A j \in (i + 1)..Len(line) : ~HasClose(line[j])
  IN IF last > first \/ (last = first /\ line[first] \in ObjTokens)
     THEN [matched |-> TRUE, text |-> SubSeq(line, first, last)]
     ELSE [matched |-> FALSE, text |-> <<>>]

\* JSON.parse(text) of a text that starts with '{' and ends with '}': the object,
\* or a SyntaxError.  "{", blanks, "}" is the empty object; two objects, an
\* object within braces and braces around other characters are no JSON.
JSONparse(text) ==
  IF Len(text) = 1 /\ text[1] \in ObjTokens
    THEN [ok |-> TRUE, value |-> JSONObjectOf(text[1])]
  ELSE IF /\ Len(text) >= 2 /\ text[1] = LB /\ text[Len(text)] = RB
          /\ \A i \in 2..(Len(text) - 1) : text[i] = WS
    THEN [ok |-> TRUE, value |-> EmptyObject]
  ELSE [ok |-> FALSE, value |-> EmptyObject]

\* logEntry.key: undefined when the object has no such key
Field(logEntry, key) == IF key \in DOMAIN logEntry THEN logEntry[key] ELSE Undefined

\* Variant: the first operand whatever it is.
OrFirst(a, b) == a

\* a || b
Or(a, b) == IF Truthy(a) THEN a ELSE b

\* new Date().toISOString() and `req-${Date.now()}`
NowISO == <<"now">>
GeneratedId == <<"req-now">>

\* The object transformLogEntry returns (nothing in its try block throws for an
\* object of string values).
transformLogEntry(logEntry) ==
  [timestamp |-> Or(Field(logEntry, "timestamp"), Or(Field(logEntry, "time"), NowISO)),
   requestId |-> Or(Field(logEntry, "request_id"), Or(Field(logEntry, "requestId"), GeneratedId)),
   method |-> Or(Field(logEntry, "method"), <<"GET">>),
   path |-> Or(Field(logEntry, "path"), Or(Field(logEntry, "url"), <<"/">>)),
   statusCode |-> parseInt(Or(Field(logEntry, "status_code"),
                              Or(Field(logEntry, "status"), <<"2", "0", "0">>))),
   responseTime |-> parseFloat(Or(Field(logEntry, "response_time"),
                                  Or(Field(logEntry, "duration"), <<"0">>))),
   sourceIP |-> Or(Field(logEntry, "source_ip"), Field(logEntry, "remote_addr")),
   decision |-> IF /\ Truthy(Field(logEntry, "status_code"))
                   /\ Lt(parseInt(Field(logEntry, "status_code")), Num(400))
                THEN "accept" ELSE "reject",
   policyType |-> Undefined]

\* What handling one line gives: an entry, nothing, or an exception.
NoEntry == transformLogEntry(EmptyObject)
Entry(e) == [kind |-> "entry", entry |-> e]
Nothing == [kind |-> "none", entry |-> NoEntry]
Throws == [kind |-> "throws", entry |-> NoEntry]

\* Variant: the pattern without its '^', matching a record anywhere in the line.
parseCommonLogFormatAnywhere(line) ==
  IF \E i \in 1..Len(line) : line[i] \in ClfTokens
  THEN LET i == CHOOSE k \in 1..Len(line) :
                  line[k] \in ClfTokens /\ \A j \in 1..(k - 1) : line[j] \notin ClfTokens
           g == ClfGroupsOf(line[i])
       IN Entry([timestamp |-> NowISO,
                 requestId |-> GeneratedId,
                 method |-> g.method,
                 path |-> g.path,
                 statusCode |-> parseInt(g.statusCode),
                 responseTime |-> Num(0),
                 sourceIP |-> <<g.sourceIP>>,
                 decision |-> IF Lt(parseInt(g.statusCode), Num(400))
                              THEN "accept" ELSE "reject",
                 policyType |-> Undefined])
  ELSE Nothing

\* parseCommonLogFormat(line): the pattern is anchored at the start of the line
\* only, and its first group (\S+) takes every character before the first blank.
parseCommonLogFormat(line) ==
  IF \E i \in 1..Len(line) :
       line[i] \in ClfTokens /\ \A j \in 1..(i - 1) : line[j] \notin ClfTokens \cup {WS}
  THEN LET i == CHOOSE k \in 1..Len(line) :
                  line[k] \in ClfTokens /\ \A j \in 1..(k - 1) : line[j] \notin ClfTokens \cup {WS}
           g == ClfGroupsOf(line[i])
       IN Entry([timestamp |-> NowISO,
                 requestId |-> GeneratedId,
                 method |-> g.method,
                 path |-> g.path,
                 statusCode |-> parseInt(g.statusCode),
                 responseTime |-> Num(0),
                 sourceIP |-> Append(SubSeq(line, 1, i - 1), g.sourceIP),
                 decision |-> IF Lt(parseInt(g.statusCode), Num(400))
                              THEN "accept" ELSE "reject",
                 policyType |-> Undefined])
  ELSE Nothing

\* The body of the try block of parseAccessLogs for one line.
ParseLine(line) ==
  IF IncludesOpen(line) /\ IncludesClose(line)
  THEN LET jsonMatch == JsonMatch(line)
       IN IF jsonMatch.matched
          THEN LET parsed == JSONparse(jsonMatch.text)
               IN IF parsed.ok THEN Entry(transformLogEntry(parsed.value)) ELSE Throws
          ELSE Nothing
  ELSE parseCommonLogFormat(line)

\* Variant: no try/catch around the handling of a line.
CatchLineRethrow(r) == r

\* try { ... } catch (error) { /* skip */ }
CatchLine(r) == IF r.kind = "throws" THEN Nothing ELSE r

RECURSIVE ParseLines(_, _)
\* for (const line of lines): acc is entries so far
ParseLines(lines, acc) ==
  IF lines = <<>> THEN [threw |-> FALSE, entries |-> acc]
  ELSE LET r == CatchLine(ParseLine(Head(lines)))
       IN CASE r.kind = "throws" -> [threw |-> TRUE, entries |-> <<>>]
            [] r.kind = "entry" -> ParseLines(Tail(lines), Append(acc, r.entry))
            [] OTHER -> ParseLines(Tail(lines), acc)

parseAccessLogs(blob) == ParseLines(SelectSeq(Split(blob, <<>>), NotBlank), <<>>)

NotParsed == [done |-> FALSE, threw |-> FALSE, entries |-> <<>>]

\* The gateway pod writes to its log.
WriteLog(tok) ==
  /\ ~entries.done
  /\ Len(logs) < MaxLogTokens
  /\ logs' = Append(logs, tok)
  /\ UNCHANGED <<entries, fetchVars, aggVars, sumVars, dashVars, callVars, uiVars>>

\* getRealLiveRequests hands the log tail of the pod to parseAccessLogs.
ParseAccessLogs ==
  /\ ~entries.done
  /\ LET r == parseAccessLogs(logs)
     IN entries' = [done |-> TRUE, threw |-> r.threw, entries |-> r.entries]
  /\ UNCHANGED <<logs, fetchVars, aggVars, sumVars, dashVars, callVars, uiVars>>

NextParse ==
  \/ \E tok \in LogTokens : WriteLog(tok)
  \/ ParseAccessLogs

(***************************************************************************)
(* GET /dashboard.                                                         *)
(***************************************************************************)
\* A promise of Promise.allSettled: pending, fulfilled with a value, or rejected.
PendingPromise(default) == [status |-> "pending", value |-> default]
Fulfilled(v) == [status |-> "fulfilled", value |-> v]
Rejected(default) == [status |-> "rejected", value |-> default]

\* The defaults of lines 122-124: null, [] and {}.
EmptyStatus == [k \in {} |-> FALSE]

\* result.status === 'fulfilled' ? result.value : default
Extract(result, default) == IF result.status = "fulfilled" THEN result.value ELSE default

\* Variant: await Promise.all([...]) throws when one of the promises is rejected.
PromiseAllThrows(p, l, s) ==
  p.status = "rejected" \/ l.status = "rejected" \/ s.status = "rejected"

\* await Promise.allSettled([...]) never throws, whatever the promises settle with.
AllSettledThrows(p, l, s) == FALSE

\* The entries a live-request list can hold: what parseAccessLogs makes of a
\* JSON line or of a common-log-format line.
LiveEntries ==
  {transformLogEntry(JSONObjectOf(tok)) : tok \in ObjTokens}
  \cup {transformLogEntry(EmptyObject)}
  \cup {parseCommonLogFormat(<<tok>>).entry : tok \in ClfTokens}

\* The records getMetricsStatus resolves with.
StatusValues ==
  {[limitadorConnected |-> l, authorinoConnected |-> a, hasRealTraffic |-> h] :
     l \in BOOLEAN, a \in BOOLEAN, h \in BOOLEAN}

\* The numbers a sum of sample values can be.
Sums == {NaN} \cup {Num(n) : n \in 0..MaxSum}

\* An object literal: a later property of the same name replaces an earlier one.
ObjectLiteral(props) ==
  [k \in {props[i][1] : i \in 1..Len(props)} |->
     props[CHOOSE i \in 1..Len(props) :
             props[i][1] = k /\ \A j \in (i + 1)..Len(props) : props[j][1] # k][2]]

\* liveRequests.filter(test).length
Count(rs, Test(_)) == Num(Len(SelectSeq(rs, Test)))

IsAccept(r) == r.decision = "accept"
IsReject(r) == r.decision = "reject"
\* r.policyType === 'AuthPolicy' || r.policyDecisions?.some(...): no entry of
\* parseAccessLogs has policyDecisions
IsAuthPolicy(r) == r.policyType = <<"AuthPolicy">>
IsRateLimitPolicy(r) == r.policyType = <<"RateLimitPolicy">>

\* Variant: the aggregate is used whenever it is not null.
UsePrometheusIfPresent(prometheusMetrics) == ~prometheusMetrics.isNull

\* prometheusMetrics && prometheusMetrics.totalRequests > 0
UsePrometheus(prometheusMetrics) ==
  ~prometheusMetrics.isNull /\ Gt(prometheusMetrics.totalRequests, Num(0))

\* Lines 133-165: the five counts and the data source.
DashboardCounts(prometheusMetrics, liveRequests) ==
  IF UsePrometheus(prometheusMetrics)
  THEN [totalRequests |-> prometheusMetrics.totalRequests,
        acceptedRequests |-> prometheusMetrics.successRequests,
        rejectedRequests |-> Sub(prometheusMetrics.totalRequests,
                                 prometheusMetrics.successRequests),
        authFailedRequests |-> prometheusMetrics.authFailedRequests,
        rateLimitedRequests |-> prometheusMetrics.rateLimitedRequests,
        dataSource |-> "prometheus-metrics"]
  ELSE [totalRequests |-> Num(Len(liveRequests)),
        acceptedRequests |-> Count(liveRequests, IsAccept),
        rejectedRequests |-> Count(liveRequests, IsReject),
        authFailedRequests |-> Count(liveRequests, IsAuthPolicy),
        rateLimitedRequests |-> Count(liveRequests, IsRateLimitPolicy),
        dataSource |-> "live-requests-fallback"]

\* Lines 186-230: the body of the 200 response.
DashboardBody(prometheusMetrics, liveRequests, status) ==
  LET c == DashboardCounts(prometheusMetrics, liveRequests)
      enhancedStatus ==
        [istioConnected |-> c.dataSource = "prometheus-metrics",
         metricsSource |-> c.dataSource,
         realData |-> Gt(c.totalRequests, Num(0)),
         dataSource |-> c.dataSource] @@ status
      kuadrantStatus ==
        [notFoundRequests |-> Num(0),
         debugInfo |-> [liveRequestsCount |-> Num(Len(liveRequests)),
                        recentRequestsTime |-> IF Len(liveRequests) > 0
                                               THEN liveRequests[1].timestamp
                                               ELSE <<"null">>,
                        cacheAge |-> NaN]] @@ enhancedStatus
  IN [success |-> TRUE,
      data |-> ObjectLiteral(<<
        <<"totalRequests", c.totalRequests>>,
        <<"acceptedRequests", c.acceptedRequests>>,
        <<"rejectedRequests", c.rejectedRequests>>,
        <<"authFailedRequests", c.authFailedRequests>>,
        <<"rateLimitedRequests", c.rateLimitedRequests>>,
        <<"policyEnforcedRequests", Add(c.authFailedRequests, c.rateLimitedRequests)>>,
        <<"source", c.dataSource>>,
        <<"kuadrantStatus", kuadrantStatus>>,
        <<"authorinoStats",
          [authConfigs |-> IF prometheusMetrics.isNull THEN 0
                           ELSE Cardinality(DOMAIN prometheusMetrics.authByNamespace)]>>,
        <<"lastUpdate", NowISO>>,
        <<"source", "prometheus-metrics">> >>)]

\* The body of the 500 response of the catch block.
ErrorBody == [success |-> FALSE, error |-> "Failed to fetch dashboard statistics"]

NoResponse500 == [sent |-> FALSE, http |-> 0, body |-> ErrorBody]

\* metricsService.fetchPrometheusMetrics() settles: with null, with the aggregate
\* of three sums (and the grouping of the authorino samples), or rejected.
SettlePrometheus(p) ==
  /\ prometheusResult.status = "pending"
  /\ prometheusResult' = p
  /\ UNCHANGED <<liveRequestsResult, statusResult, response,
                 fetchVars, aggVars, sumVars, parseVars, callVars, uiVars>>

\* metricsService.getRealLiveRequests() settles.
SettleLiveRequests(l) ==
  /\ liveRequestsResult.status = "pending"
  /\ liveRequestsResult' = l
  /\ UNCHANGED <<prometheusResult, statusResult, response,
                 fetchVars, aggVars, sumVars, parseVars, callVars, uiVars>>

\* metricsService.getMetricsStatus() settles.
SettleStatus(s) ==
  /\ statusResult.status = "pending"
  /\ statusResult' = s
  /\ UNCHANGED <<prometheusResult, liveRequestsResult, response,
                 fetchVars, aggVars, sumVars, parseVars, callVars, uiVars>>

\* All three have settled: the handler resumes and sends the response.
Respond ==
  /\ ~response.sent
  /\ prometheusResult.status # "pending"
  /\ liveRequestsResult.status # "pending"
  /\ statusResult.status # "pending"
  /\ response' =
       IF AllSettledThrows(prometheusResult, liveRequestsResult, statusResult)
       THEN [sent |-> TRUE, http |-> 500, body |-> ErrorBody]
       ELSE [sent |-> TRUE, http |-> 200,
             body |-> DashboardBody(Extract(prometheusResult, Null),
                                    Extract(liveRequestsResult, <<>>),
                                    Extract(statusResult, EmptyStatus))]
  /\ UNCHANGED <<prometheusResult, liveRequestsResult, statusResult,
                 fetchVars, aggVars, sumVars, parseVars, callVars, uiVars>>

PrometheusOutcomes ==
  {Rejected(Null), Fulfilled(Null)}
  \cup {Fulfilled(PrometheusAggregate(t, a, r, ns, EmptyMap)) :
          t \in Sums, a \in Sums, r \in Sums,
          ns \in {EmptyMap, MapSet(EmptyMap, <<"unknown">>, Num(MaxSum))}}
LiveOutcomes == {Rejected(<<>>)} \cup {Fulfilled(l) : l \in SeqsUpTo(LiveEntries, MaxLive)}
StatusOutcomes == {Rejected(EmptyStatus)} \cup {Fulfilled(s) : s \in StatusValues}

NextDash ==
  \/ \E p \in PrometheusOutcomes : SettlePrometheus(p)
  \/ \E l \in LiveOutcomes : SettleLiveRequests(l)
  \/ \E s \in StatusOutcomes : SettleStatus(s)
  \/ Respond

(***************************************************************************)
(* getRealLiveRequests: the gateway pods are listed, then the log tail of  *)
(* each pod is read and parsed in a for loop, one await per iteration.     *)
(* An entry of the result is written here by where it comes from (pod and  *)
(* line of the tail) and by the time of its request; what parseAccessLogs  *)
(* makes of the text of a line is modelled above.                          *)
(***************************************************************************)
baseVars == <<fetchVars, aggVars, sumVars, parseVars, dashVars>>

MaxPods == 2           \* gateway pods the listing returns

\* tailLines: 100 (line 180) and requests.slice(0, 100) (line 189)
TailLines == 100
SliceEnd == 100

GatewayPods == [i \in 1..MaxPods |-> i]

\* What listNamespacedPod settles with for the gateway selector: an error, a
\* body without items, or the first n gateway pods.
PodListings ==
  {[kind |-> "error", items |-> <<>>], [kind |-> "noitems", items |-> <<>>]}
  \cup {[kind |-> "success", items |-> SubSeq(GatewayPods, 1, n)] : n \in 0..MaxPods}

\* Variant: findPods without its try/catch.
findPodsNoCatch(listing) ==
  [threw |-> listing.kind = "error",
   pods |-> IF listing.kind = "success" THEN listing.items ELSE <<>>]

\* findPods: response.body.items || [], and [] from its catch block; it never
\* throws.
findPods(listing) ==
  [threw |-> FALSE,
   pods |-> IF listing.kind = "success" THEN listing.items ELSE <<>>]

\* The entries parseAccessLogs makes of a log tail of pod whose n parsable lines
\* are in chronological order, the first request being made at time first.
ParsedTail(pod, n, first) ==
  [line \in 1..n |-> [pod |-> pod, line |-> line, time |-> first + line - 1]]

\* What readNamespacedPodLog settles with: an error, an empty body, a body that
\* is not a string, or a tail of at most TailLines lines.
TailSizes == {1, TailLines - 1, TailLines}
TailStarts == {0, TailLines}
PodLogReads(pod) ==
  {[kind |-> k, parsed |-> <<>>] : k \in {"error", "empty", "notstring"}}
  \cup {[kind |-> "text", parsed |-> ParsedTail(pod, n, first)] :
          n \in TailSizes, first \in TailStarts}

\* Variant: neither getPodLogs nor the loop body catches a failed log read.
LoopBodyNoCatch(read) ==
  IF read.kind \in {"error", "notstring"} THEN [kind |-> "throw", parsed |-> <<>>]
  ELSE [kind |-> "push", parsed |-> read.parsed]

\* Lines 179-185 for one pod.  getPodLogs returns '' for an error (line 279) and
\* for an empty body (line 276), and parseAccessLogs('') is []; logs.split of a
\* body that is not a string throws, which the catch of line 183 swallows.
LoopBody(read) ==
  IF read.kind = "notstring" THEN [kind |-> "skip", parsed |-> <<>>]
  ELSE [kind |-> "push", parsed |-> read.parsed]

\* Variant: the whole list is returned.
SliceAll(requests) == requests

\* requests.slice(0, 100)
Slice(requests) ==
  SubSeq(requests, 1, IF Len(requests) < SliceEnd THEN Len(requests) ELSE SliceEnd)

IdleLive ==
  [pc |-> "idle", gatewayPods |-> <<>>, next |-> 1, reads |-> <<>>,
   requests |-> <<>>, ret |-> <<>>]

\* The call: findPods is awaited.
CallGetRealLiveRequests ==
  /\ liveCall.pc = "idle"
  /\ liveCall' = [liveCall EXCEPT !.pc = "findPods"]
  /\ UNCHANGED <<statusCall, policyCall, proxyCall, routeCall, baseVars, uiVars>>

\* findPods settles: the loop starts, or the function returns when there is no pod.
LiveFindPodsSettles(listing) ==
  /\ liveCall.pc = "findPods"
  /\ LET found == findPods(listing)
     IN liveCall' =
          IF found.threw
          THEN [liveCall EXCEPT !.pc = "returned", !.ret = <<>>]
          ELSE IF found.pods = <<>>
          THEN [liveCall EXCEPT !.pc = "returned", !.ret = Slice(<<>>)]
          ELSE [liveCall EXCEPT !.pc = "getPodLogs", !.gatewayPods = found.pods]
  /\ UNCHANGED <<statusCall, policyCall, proxyCall, routeCall, baseVars, uiVars>>

\* The log read of the current pod settles: its entries are pushed or the pod is
\* skipped, and the loop goes on to the next pod or the function returns.  An
\* exception that leaves the loop is caught at line 190, which returns [].
LivePodLogsSettle(read) ==
  /\ liveCall.pc = "getPodLogs"
  /\ LET body == LoopBody(read)
         requests == liveCall.requests \o body.parsed
         reads == Append(liveCall.reads, read)
     IN liveCall' =
          IF body.kind = "throw"
          THEN [liveCall EXCEPT !.pc = "returned", !.reads = reads, !.ret = <<>>]
          ELSE IF liveCall.next = Len(liveCall.gatewayPods)
          THEN [liveCall EXCEPT !.pc = "returned", !.reads = reads,
                                !.requests = requests, !.ret = Slice(requests)]
          ELSE [liveCall EXCEPT !.next = @ + 1, !.reads = reads,
                                !.requests = requests]
  /\ UNCHANGED <<statusCall, policyCall, proxyCall, routeCall, baseVars, uiVars>>

NextLive ==
  \/ CallGetRealLiveRequests
  \/ \E listing \in PodListings : LiveFindPodsSettles(listing)
  \/ /\ liveCall.pc = "getPodLogs"
     /\ \E read \in PodLogReads(liveCall.gatewayPods[liveCall.next]) :
          LivePodLogsSettle(read)

(***************************************************************************)
(* getMetricsStatus: three awaits in a row, the listing of the Limitador   *)
(* pods, the listing of the Authorino pods and getRealLiveRequests.        *)
(***************************************************************************)
\* pod.status?.phase of a listed pod; "none" is a pod without status
PodPhases == {"Running", "Pending", "none"}

\* What listNamespacedPod settles with for a component of kuadrant-system.
ComponentListings ==
  {[kind |-> "error", items |-> <<>>], [kind |-> "noitems", items |-> <<>>]}
  \cup {[kind |-> "success", items |-> items] : items \in SeqsUpTo(PodPhases, MaxPods)}

\* What getRealLiveRequests resolves with: it catches every failure of its own
\* and returns [] then (line 192), or at most SliceEnd entries.
RecentRequests == {<<>>, ParsedTail(1, 1, 0), ParsedTail(1, SliceEnd, 0)}

\* pods.length > 0 && pods.some(pod => pod.status?.phase === 'Running')
Connected(pods) == Len(pods) > 0 /\ \E i \in 1..Len(pods) : pods[i] = "Running"

\* The object of lines 201-206 and the one the catch block returns (lines 226-232).
InitialStatus ==
  [limitadorConnected |-> FALSE, authorinoConnected |-> FALSE,
   hasRealTraffic |-> FALSE, lastUpdate |-> NowISO, error |-> Undefined]
CaughtStatus == [InitialStatus EXCEPT !.error = <<"message">>]

IdleStatus ==
  [pc |-> "idle", limitador |-> [kind |-> "none", items |-> <<>>],
   authorino |-> [kind |-> "none", items |-> <<>>], recentRequests |-> <<>>,
   status |-> InitialStatus]

\* The call: the Limitador pods are asked for.
CallGetMetricsStatus ==
  /\ statusCall.pc = "idle"
  /\ statusCall' = [statusCall EXCEPT !.pc = "limitadorPods"]
  /\ UNCHANGED <<liveCall, policyCall, proxyCall, routeCall, baseVars, uiVars>>

\* The listing of the Limitador pods settles (lines 209-211).
StatusLimitadorSettles(listing) ==
  /\ statusCall.pc = "limitadorPods"
  /\ LET found == findPods(listing)
     IN statusCall' =
          IF found.threw
          THEN [statusCall EXCEPT !.pc = "returned", !.limitador = listing,
                                  !.status = CaughtStatus]
          ELSE [statusCall EXCEPT !.pc = "authorinoPods", !.limitador = listing,
                                  !.status.limitadorConnected = Connected(found.pods)]
  /\ UNCHANGED <<liveCall, policyCall, proxyCall, routeCall, baseVars, uiVars>>

\* The listing of the Authorino pods settles (lines 214-216).
StatusAuthorinoSettles(listing) ==
  /\ statusCall.pc = "authorinoPods"
  /\ LET found == findPods(listing)
     IN statusCall' =
          IF found.threw
          THEN [statusCall EXCEPT !.pc = "returned", !.authorino = listing,
                                  !.status = CaughtStatus]
          ELSE [statusCall EXCEPT !.pc = "recentRequests", !.authorino = listing,
                                  !.status.authorinoConnected = Connected(found.pods)]
  /\ UNCHANGED <<liveCall, policyCall, proxyCall, routeCall, baseVars, uiVars>>

\* getRealLiveRequests settles and the status is returned (lines 219-223).
StatusRecentRequestsSettle(recentRequests) ==
  /\ statusCall.pc = "recentRequests"
  /\ statusCall' = [statusCall EXCEPT !.pc = "returned",
                                      !.recentRequests = recentRequests,
                                      !.status.hasRealTraffic = Len(recentRequests) > 0]
  /\ UNCHANGED <<liveCall, policyCall, proxyCall, routeCall, baseVars, uiVars>>

NextStatus ==
  \/ CallGetMetricsStatus
  \/ \E listing \in ComponentListings : StatusLimitadorSettles(listing)
  \/ \E listing \in ComponentListings : StatusAuthorinoSettles(listing)
  \/ \E recentRequests \in RecentRequests : StatusRecentRequestsSettle(recentRequests)

(***************************************************************************)
(* KuadrantService.getAuthPolicies, getRateLimitPolicies and               *)
(* getTokenRateLimitPolicies: a namespaced list call whose items are       *)
(* transformed and pushed inside the same try block and, in its catch      *)
(* block, a cluster list call handled the same way.                        *)
(***************************************************************************)
MaxPolicies == 2       \* items in the answer to a list call

PolicyKinds == {"AuthPolicy", "RateLimitPolicy", "TokenRateLimitPolicy"}

\* The version and plural of the list calls of a kind (lines 58-61, 110-113, 162-165).
VersionOf(kind) ==
  CASE kind = "AuthPolicy" -> "v1"
    [] kind = "RateLimitPolicy" -> "v1beta2"
    [] kind = "TokenRateLimitPolicy" -> "v1beta1"
PluralOf(kind) ==
  CASE kind = "AuthPolicy" -> "authpolicies"
    [] kind = "RateLimitPolicy" -> "ratelimitpolicies"
    [] kind = "TokenRateLimitPolicy" -> "tokenratelimitpolicies"

\* listNamespacedCustomObject(group, version, namespace, plural) and
\* listClusterCustomObject(group, version, plural)
ListCall(scope, kind) ==
  [scope |-> scope, group |-> "kuadrant.io", version |-> VersionOf(kind),
   plural |-> PluralOf(kind)]

\* An item of a list answer, written by its metadata.name.  Malformed is an
\* item the transform function throws on: one whose status.conditions has no
\* some(), or whose spec.rateLimits has no forEach() (lines 273 and 334).
Malformed == "(malformed)"
PolicyItems == {"a", Malformed}

\* What a list call settles with: an error (permission denied, unreachable), a
\* body without items, or a list of items.
ListAnswers ==
  {[kind |-> "error", items |-> <<>>], [kind |-> "noitems", items |-> <<>>]}
  \cup {[kind |-> "success", items |-> items] : items \in SeqsUpTo(PolicyItems, MaxPolicies)}
NoAnswer == [kind |-> "none", items |-> <<>>]

\* transformAuthPolicy, transformRateLimitPolicy, transformTokenRateLimitPolicy
TransformPolicy(kind, scope, item) ==
  [name |-> item, type |-> IF kind = "AuthPolicy" THEN "auth" ELSE "rateLimit",
   listing |-> scope]

RECURSIVE PushTransformed(_, _, _, _)
\* for (const policy of items) policies.push(transform(policy)): the policies
\* pushed when the loop ends or throws
PushTransformed(kind, scope, items, policies) ==
  IF items = <<>> THEN [threw |-> FALSE, policies |-> policies]
  ELSE IF Head(items) = Malformed THEN [threw |-> TRUE, policies |-> policies]
  ELSE PushTransformed(kind, scope, Tail(items),
                       Append(policies, TransformPolicy(kind, scope, Head(items))))

\* The try block of a list call (lines 56-70 and 75-88): the await throws when the
\* call is rejected, (response.body as any).items || [] is transformed and pushed.
HandleAnswer(kind, scope, answer, policies) ==
  IF answer.kind = "error" THEN [threw |-> TRUE, policies |-> policies]
  ELSE PushTransformed(kind, scope, answer.items, policies)

IdlePolicyCall ==
  [pc |-> "idle", kind |-> "AuthPolicy", calls |-> <<>>, namespaced |-> NoAnswer,
   cluster |-> NoAnswer, policies |-> <<>>]

\* The call: the namespaced list call is made.
CallGetPolicies(kind) ==
  /\ policyCall.pc = "idle"
  /\ policyCall' = [policyCall EXCEPT !.pc = "namespaced", !.kind = kind,
                                      !.calls = <<ListCall("namespaced", kind)>>]
  /\ UNCHANGED <<liveCall, statusCall, proxyCall, routeCall, baseVars, uiVars>>

\* The namespaced call settles: policies is returned, or the cluster call is made
\* from the catch (nsError) block.
NamespacedSettles(answer) ==
  /\ policyCall.pc = "namespaced"
  /\ LET r == HandleAnswer(policyCall.kind, "namespaced", answer, policyCall.policies)
     IN policyCall' =
          IF r.threw
          THEN [policyCall EXCEPT !.pc = "cluster", !.namespaced = answer,
                                  !.policies = r.policies,
                                  !.calls = Append(@, ListCall("cluster", policyCall.kind))]
          ELSE [policyCall EXCEPT !.pc = "returned", !.namespaced = answer,
                                  !.policies = r.policies]
  /\ UNCHANGED <<liveCall, statusCall, proxyCall, routeCall, baseVars, uiVars>>

\* The cluster call settles: the catch (clusterError) block only logs, and
\* policies is returned.
ClusterSettles(answer) ==
  /\ policyCall.pc = "cluster"
  /\ LET r == HandleAnswer(policyCall.kind, "cluster", answer, policyCall.policies)
     IN policyCall' = [policyCall EXCEPT !.pc = "returned", !.cluster = answer,
                                         !.policies = r.policies]
  /\ UNCHANGED <<liveCall, statusCall, proxyCall, routeCall, baseVars, uiVars>>

NextPolicies ==
  \/ \E kind \in PolicyKinds : CallGetPolicies(kind)
  \/ \E answer \in ListAnswers : NamespacedSettles(answer)
  \/ \E answer \in ListAnswers : ClusterSettles(answer)

(***************************************************************************)
(* POST /chat/completions, the simulator proxy.  The repository has two    *)
(* versions of the route (part_001 lines 378-481 and 493-615); route says  *)
(* which one handles the request.                                          *)
(***************************************************************************)
SimulatorRoutes == {"simulator-1", "simulator-2"}

\* req.headers.authorization: absent, empty, or a credential
NoHeader == "(absent)"
AuthHeaders == {NoHeader, "", "APIKEY freeuser1_key", "Bearer token"}

\* req.body.model: absent, a string, or a value that is no string; NoBody is a
\* request without a parsed body (req.body is undefined).
NotAString == <<"(number)">>
NoBody == <<"(no body)">>
Models ==
  {Undefined, NotAString, NoBody,
   <<"q", "w", "e", "n", "3">>, <<"m", "y", "-", "q", "w", "e", "n">>,
   <<"Q", "w", "e", "n">>, <<"s", "i", "m">>}

\* s.includes(sub)
includes(s, sub) ==
  \E i \in 1..(Len(s) - Len(sub) + 1) : SubSeq(s, i, i + Len(sub) - 1) = sub

\* model?.includes('qwen') ? 'qwen3' : 'simulator'
ModelKey(model) ==
  IF model # Undefined /\ includes(model, <<"q", "w", "e", "n">>)
  THEN "qwen3" ELSE "simulator"
HostHeader(modelKey) ==
  IF modelKey = "qwen3" THEN "qwen3.maas.local" ELSE "simulator.maas.local"
ActualModel(modelKey) ==
  IF modelKey = "qwen3" THEN "qwen3-0-6b-instruct" ELSE "simulator-model"

\* The host of targetUrl (the defaults of lines 411-412 and 524).
UrlHost(route, modelKey) ==
  IF route = "simulator-2" THEN "localhost:8080"
  ELSE IF modelKey = "qwen3"
  THEN "qwen3-llm.apps.summit-gpu.octo-emerging.redhataicoe.com"
  ELSE "simulator-llm.apps.summit-gpu.octo-emerging.redhataicoe.com"

\* requestOptions.headers (lines 425-428 and 537-541)
RequestHeaders(route, authHeader, hostHeader) ==
  IF route = "simulator-2"
  THEN ObjectLiteral(<< <<"Authorization", authHeader>>,
                        <<"Content-Type", "application/json">>,
                        <<"Host", hostHeader>> >>)
  ELSE ObjectLiteral(<< <<"Authorization", authHeader>>,
                        <<"Content-Type", "application/json">> >>)

\* The header block undici sends: a Host header that the options do not set is
\* the host of the URL.
WireHeaders(headers, urlHost) ==
  IF "Host" \in DOMAIN headers THEN headers ELSE headers @@ [Host |-> urlHost]

\* The status codes and body texts of the gateway.
UpstreamStatuses == {200, 302, 401, 429, 500}
JsonText == "{\"choices\":[]}"
BodyTexts == {JsonText, "Too Many Requests", ""}

\* JSON.parse(responseText), { error: responseText } when it throws
ResponseData(responseText) ==
  IF responseText = JsonText THEN [choices |-> <<>>] ELSE [error |-> responseText]

\* Variant: the proxy answers 200 whatever the gateway answered.
ForwardedStatusOk(statusCode) == 200

\* res.status(response.statusCode)
ForwardedStatus(statusCode) == statusCode

\* The 401 of lines 386-389 and the 500 of the catch block.
AuthRequiredBody == [success |-> FALSE, error |-> "Authorization header required"]
ProxyErrorBody == [success |-> FALSE, error |-> "Failed to proxy request to model server"]

\* Variant: every status below 400 counts as a success.
ProxiedBodyNoError(statusCode, responseText, upstream) ==
  [success |-> statusCode < 400,
   data |-> [error |-> responseText],
   debug |-> [requestUrl |-> upstream.url, requestHeaders |-> upstream.options,
              requestBody |-> upstream.body, responseStatus |-> statusCode]]

\* The body of lines 459-471 and 593-605.
ProxiedBody(statusCode, responseText, upstream) ==
  [success |-> statusCode >= 200 /\ statusCode < 300,
   data |-> ResponseData(responseText),
   debug |-> [requestUrl |-> upstream.url,
              requestHeaders |-> upstream.options,
              requestBody |-> upstream.body,
              responseStatus |-> statusCode]]

NotSent == [sent |-> FALSE, url |-> "", options |-> <<>>, headers |-> <<>>, body |-> ""]
IdleProxy ==
  [pc |-> "idle", route |-> "simulator-1", authorization |-> NoHeader,
   model |-> Undefined, upstream |-> NotSent, statusCode |-> 0, textRead |-> FALSE,
   responseText |-> "",
   http |-> 0, body |-> ProxyErrorBody]

\* The handler up to its first await: 500 when req.body cannot be destructured,
\* 401 without Authorization, 500 when model.includes is no function, else the
\* request to the gateway is sent.
PostChatCompletions(route, authHeader, model) ==
  /\ proxyCall.pc = "idle"
  /\ LET started == [proxyCall EXCEPT !.route = route, !.authorization = authHeader,
                                      !.model = model]
         modelKey == ModelKey(model)
         options == RequestHeaders(route, authHeader, HostHeader(modelKey))
     IN proxyCall' =
          IF model = NoBody
          THEN [started EXCEPT !.pc = "done", !.http = 500, !.body = ProxyErrorBody]
          ELSE IF authHeader \in {NoHeader, ""}
          THEN [started EXCEPT !.pc = "done", !.http = 401, !.body = AuthRequiredBody]
          ELSE IF model = NotAString
          THEN [started EXCEPT !.pc = "done", !.http = 500, !.body = ProxyErrorBody]
          ELSE [started EXCEPT
                  !.pc = "request",
                  !.upstream = [sent |-> TRUE,
                                url |-> UrlHost(route, modelKey),
                                options |-> options,
                                headers |-> WireHeaders(options, UrlHost(route, modelKey)),
                                body |-> ActualModel(modelKey)]]
  /\ UNCHANGED <<liveCall, statusCall, policyCall, routeCall, baseVars, uiVars>>

\* await request(targetUrl, requestOptions) settles: with the status line of the
\* gateway, or rejected, which the catch block answers with 500.
UpstreamSettles(reached, statusCode) ==
  /\ proxyCall.pc = "request"
  /\ proxyCall' =
       IF reached
       THEN [proxyCall EXCEPT !.pc = "text", !.statusCode = statusCode]
       ELSE [proxyCall EXCEPT !.pc = "done", !.http = 500, !.body = ProxyErrorBody]
  /\ UNCHANGED <<liveCall, statusCall, policyCall, routeCall, baseVars, uiVars>>

\* await response.body.text() settles: the answer of the gateway is passed on, or
\* the read was rejected, which the catch block answers with 500.  The second
\* version then records a simulator metric inside a try/catch of its own (lines
\* 570-590), which leaves the response as it is.
BodyTextSettles(read, responseText) ==
  /\ proxyCall.pc = "text"
  /\ proxyCall' =
       IF read
       THEN [proxyCall EXCEPT !.pc = "done", !.textRead = TRUE,
               !.responseText = responseText,
               !.http = ForwardedStatus(proxyCall.statusCode),
               !.body = ProxiedBody(proxyCall.statusCode, responseText, proxyCall.upstream)]
       ELSE [proxyCall EXCEPT !.pc = "done", !.http = 500, !.body = ProxyErrorBody]
  /\ UNCHANGED <<liveCall, statusCall, policyCall, routeCall, baseVars, uiVars>>

NextProxy ==
  \/ \E route \in SimulatorRoutes, authHeader \in AuthHeaders, model \in Models :
       PostChatCompletions(route, authHeader, model)
  \/ \E reached \in BOOLEAN, statusCode \in UpstreamStatuses :
       UpstreamSettles(reached, statusCode)
  \/ \E read \in BOOLEAN, responseText \in BodyTexts : BodyTextSettles(read, responseText)

(***************************************************************************)
(* The other routes of routes/metrics.ts: GET /live-requests,              *)
(* GET /requests/:id, GET /policy-stats and GET /.  Each awaits one call   *)
(* of the metrics service and answers.                                     *)
(***************************************************************************)
LiveRoutes == {"/live-requests", "/requests/:id", "/policy-stats"}

\* req.params.id and req.query.timeRange
RequestIds == {<<"a", "b", "c">>, <<"x">>}
TimeRanges == {Undefined, <<"2", "4", "h">>}

\* requests.find(r => r.id === id): the entry found, if any
FindById(requests, id) ==
  SelectSeq(requests, LAMBDA r : "id" \in DOMAIN r /\ r.id = id)

\* Whether lines 58-93 throw: r.policyDecisions.filter of an entry that has no
\* policyDecisions.
StatsThrow(requests) ==
  \E i \in 1..Len(requests) : "policyDecisions" \notin DOMAIN requests[i]

\* The stats of lines 58-93 for a list whose entries have no policy decisions,
\* model inference or authentication.
PolicyStats(requests) ==
  [totalRequests |-> Num(Len(requests)),
   approvedRequests |-> Count(requests, IsAccept),
   rejectedRequests |-> Count(requests, IsReject),
   policyDecisions |-> Num(0), enforcementPoints |-> Num(0),
   modelInferences |-> Num(0), authentication |-> Num(0)]

RouteError(endpoint) ==
  [success |-> FALSE,
   error |-> CASE endpoint = "/live-requests" -> "Failed to fetch live requests"
               [] endpoint = "/requests/:id" -> "Failed to fetch request details"
               [] endpoint = "/policy-stats" -> "Failed to fetch policy statistics"
               [] endpoint = "/" -> "Failed to fetch metrics"]

\* What the handler of endpoint answers once the promise it awaits has settled:
\* res.json(...) is a 200.
RouteResponse(endpoint, id, timeRange, settled) ==
  IF settled.status = "rejected"
    THEN [http |-> 500, body |-> RouteError(endpoint)]
  ELSE IF endpoint = "/live-requests"
    THEN [http |-> 200,
          body |-> [success |-> TRUE, data |-> settled.value, timestamp |-> NowISO]]
  ELSE IF endpoint = "/requests/:id"
    THEN IF FindById(settled.value, id) = <<>>
         THEN [http |-> 404, body |-> [success |-> FALSE, error |-> "Request not found"]]
         ELSE [http |-> 200,
               body |-> [success |-> TRUE, data |-> FindById(settled.value, id)[1],
                         timestamp |-> NowISO]]
  ELSE IF endpoint = "/policy-stats"
    THEN IF StatsThrow(settled.value)
         THEN [http |-> 500, body |-> RouteError(endpoint)]
         ELSE [http |-> 200,
               body |-> [success |-> TRUE, data |-> PolicyStats(settled.value),
                         timestamp |-> NowISO]]
  ELSE [http |-> 200,
        body |-> [success |-> TRUE,
                  data |-> [timeRange |-> Or(timeRange, <<"1", "h">>),
                            kuadrantStatus |-> settled.value,
                            message |-> "Metrics endpoint active"]]]

IdleRoute ==
  [pc |-> "idle", endpoint |-> "/", id |-> Undefined, timeRange |-> Undefined,
   settled |-> PendingPromise(<<>>), http |-> 0, body |-> RouteError("/")]

\* A request arrives: the handler awaits getRealLiveRequests or getMetricsStatus.
GetRoute(endpoint, id, timeRange) ==
  /\ routeCall.pc = "idle"
  /\ routeCall' = [routeCall EXCEPT !.pc = "awaiting", !.endpoint = endpoint,
                                    !.id = id, !.timeRange = timeRange]
  /\ UNCHANGED <<liveCall, statusCall, policyCall, proxyCall, baseVars, uiVars>>

\* The awaited promise settles and the response is sent.
RouteSettles(settled) ==
  /\ routeCall.pc = "awaiting"
  /\ LET r == RouteResponse(routeCall.endpoint, routeCall.id, routeCall.timeRange, settled)
     IN routeCall' = [routeCall EXCEPT !.pc = "done", !.settled = settled,
                                       !.http = r.http, !.body = r.body]
  /\ UNCHANGED <<liveCall, statusCall, policyCall, proxyCall, baseVars, uiVars>>

NextRoutes ==
  \/ \E endpoint \in LiveRoutes \ {"/requests/:id"} : GetRoute(endpoint, Undefined, Undefined)
  \/ \E id \in RequestIds : GetRoute("/requests/:id", id, Undefined)
  \/ \E timeRange \in TimeRanges : GetRoute("/", Undefined, timeRange)
  \/ /\ routeCall.endpoint \in LiveRoutes
     /\ \E settled \in LiveOutcomes : RouteSettles(settled)
  \/ /\ routeCall.endpoint = "/"
     /\ \E settled \in StatusOutcomes : RouteSettles(settled)

(***************************************************************************)
(* Specifications.                                                         *)
(***************************************************************************)
(***************************************************************************)
(* GET /dashboard over the log of one gateway pod.  The handler's own      *)
(* getRealLiveRequests() and the one inside getMetricsStatus() (line 219)  *)
(* each fetch and parse the log when they run; the pod writes to the log   *)
(* meanwhile.  getPodLogs answers '' when the read fails (line 279), which *)
(* parses to no entries; neither call rejects.                              *)
(***************************************************************************)
\* What the gateway pod writes while the handler runs: request lines.
TrafficTokens == {Clf200, NL}

\* The list one getRealLiveRequests() returns for the log as it is now.
ReadLiveRequests(blob, readOk) ==
  IF readOk THEN Slice(parseAccessLogs(blob).entries) ELSE <<>>

\* The handler's getRealLiveRequests() reads the log and settles.
DashboardReadsLogs(readOk) ==
  /\ liveRequestsResult.status = "pending"
  /\ liveRequestsResult' = Fulfilled(ReadLiveRequests(logs, readOk))
  /\ UNCHANGED <<prometheusResult, statusResult, response,
                 fetchVars, aggVars, sumVars, parseVars, callVars, uiVars>>

\* getMetricsStatus() has listed the pods, reads the log through its own
\* getRealLiveRequests() and settles (lines 218-223).
StatusReadsLogs(readOk, limitador, authorino) ==
  /\ statusResult.status = "pending"
  /\ statusResult' = Fulfilled([limitadorConnected |-> limitador,
                                authorinoConnected |-> authorino,
                                hasRealTraffic |-> Len(ReadLiveRequests(logs, readOk)) > 0])
  /\ UNCHANGED <<prometheusResult, liveRequestsResult, response,
                 fetchVars, aggVars, sumVars, parseVars, callVars, uiVars>>

NextTraffic ==
  \/ \E tok \in TrafficTokens : WriteLog(tok)
  \/ \E readOk \in BOOLEAN : DashboardReadsLogs(readOk)
  \/ \E readOk, limitador, authorino \in BOOLEAN : StatusReadsLogs(readOk, limitador, authorino)
  \/ \E p \in PrometheusOutcomes : SettlePrometheus(p)
  \/ Respond

(***************************************************************************)
(* useLiveRequests (MetricsDashboard.tsx).  fetchLiveRequests is called    *)
(* once when the hook mounts, by the interval timer and by refetch; each   *)
(* call awaits apiService.getLiveRequests() and the calls may overlap.     *)
(* A step of the model runs a call up to its await, or from there to its   *)
(* end.  An entry is {id, batch}: batch tells the entries of two answers    *)
(* apart.                                                                  *)
(***************************************************************************)
MaxFetches == 3        \* calls of fetchLiveRequests / of fetchStats
KeepFirst == 100       \* slice(0, 100)

\* An id the entry does not carry (req.id is undefined).
NoId == 0

\* count entries of answer n with the ids first, first + 1, ...
Block(first, count, n) == [k \in 1..count |-> [id |-> first + k - 1, batch |-> n]]

\* The lists apiService.getLiveRequests() can resolve with for call n.
LiveAnswers(n) ==
  {<<>>, Block(1, 1, n), Block(1, 2, n), Block(2, 2, n),
   <<[id |-> 1, batch |-> n], [id |-> 1, batch |-> n]>>,
   <<[id |-> NoId, batch |-> n], [id |-> NoId, batch |-> n]>>,
   Block(1, KeepFirst, n), Block(KeepFirst, KeepFirst, n)}

\* list.slice(0, 100)
KeepHead(list) == SubSeq(list, 1, IF Len(list) < KeepFirst THEN Len(list) ELSE KeepFirst)

\* The updater handed to setRequests (lines 897-906).
MergeRequests(prev, data) ==
  LET existingIds == {prev[i].id : i \in 1..Len(prev)}
      IsNew(req) == req.id \notin existingIds
      newRequests == SelectSeq(data, IsNew)
  IN KeepHead(newRequests \o prev)

IdleLiveHook ==
  [mounted |-> FALSE, requests |-> <<>>, loading |-> TRUE, refreshing |-> FALSE,
   error |-> FALSE, updates |-> 0, issued |-> 0, inflight |-> {}]

\* fetchLiveRequests(isRefresh) up to its await.
StartLiveFetch(isRefresh) ==
  /\ liveHook.issued < MaxFetches
  /\ liveHook' = [liveHook EXCEPT
       !.refreshing = IF isRefresh THEN TRUE ELSE @,
       !.error = FALSE,
       !.issued = @ + 1,
       !.inflight = @ \cup {[n |-> liveHook.issued + 1, isRefresh |-> isRefresh]}]
  /\ UNCHANGED <<statsHook, simRun, callVars, baseVars>>

\* The hook mounts: the effect of lines 918-920 calls fetchLiveRequests().
MountLiveRequests ==
  /\ ~liveHook.mounted
  /\ liveHook.issued < MaxFetches
  /\ liveHook' = [liveHook EXCEPT
       !.mounted = TRUE,
       !.error = FALSE,
       !.issued = @ + 1,
       !.inflight = @ \cup {[n |-> liveHook.issued + 1, isRefresh |-> FALSE]}]
  /\ UNCHANGED <<statsHook, simRun, callVars, baseVars>>

\* The interval timer of lines 922-930 fires, or refetch() is called (line 938):
\* both call fetchLiveRequests(true).
LiveRefresh == liveHook.mounted /\ StartLiveFetch(TRUE)

\* The awaited call of fetch c resolves with data: lines 897-907 and the finally.
LiveFetchResolves(c, data) ==
  /\ c \in liveHook.inflight
  /\ liveHook' = [liveHook EXCEPT
       !.requests = MergeRequests(@, data),
       !.updates = @ + 1,
       !.loading = FALSE,
       !.refreshing = IF c.isRefresh THEN FALSE ELSE @,
       !.inflight = @ \ {c}]
  /\ UNCHANGED <<statsHook, simRun, callVars, baseVars>>

\* The awaited call of fetch c rejects: the catch of line 908 and the finally.
LiveFetchRejects(c) ==
  /\ c \in liveHook.inflight
  /\ liveHook' = [liveHook EXCEPT
       !.error = TRUE,
       !.loading = FALSE,
       !.refreshing = IF c.isRefresh THEN FALSE ELSE @,
       !.inflight = @ \ {c}]
  /\ UNCHANGED <<statsHook, simRun, callVars, baseVars>>

LiveCalls == {[n |-> n, isRefresh |-> b] : n \in 1..MaxFetches, b \in BOOLEAN}

NextLiveHook ==
  \/ MountLiveRequests
  \/ LiveRefresh
  \/ \E c \in LiveCalls : \E data \in LiveAnswers(c.n) : LiveFetchResolves(c, data)
  \/ \E c \in LiveCalls : LiveFetchRejects(c)

(***************************************************************************)
(* useDashboardStats (MetricsDashboard.tsx).  fetchStats is called once    *)
(* when the hook mounts, by the interval timer and by the refresh button;  *)
(* each call awaits apiService.getDashboardStats() and the calls may       *)
(* overlap.  The data call n resolves with is written n; stats 0 is null.  *)
(***************************************************************************)
IdleStatsHook ==
  [mounted |-> FALSE, autoRefresh |-> TRUE, stats |-> 0, loading |-> TRUE,
   refreshing |-> FALSE, error |-> FALSE, updates |-> 0, issued |-> 0, inflight |-> {}]

\* fetchStats(isRefresh) up to its await (lines 950-957); by is the caller.
StartStatsFetch(isRefresh, by) ==
  /\ statsHook.issued < MaxFetches
  /\ statsHook' = [statsHook EXCEPT
       !.mounted = TRUE,
       !.refreshing = IF isRefresh THEN TRUE ELSE @,
       !.loading = IF isRefresh THEN @ ELSE TRUE,
       !.error = FALSE,
       !.issued = @ + 1,
       !.inflight = @ \cup {[n |-> statsHook.issued + 1, isRefresh |-> isRefresh,
                              by |-> by]}]
  /\ UNCHANGED <<liveHook, simRun, callVars, baseVars>>

\* The hook mounts: the effect of lines 971-973 calls fetchStats().
MountDashboardStats == ~statsHook.mounted /\ StartStatsFetch(FALSE, "mount")

\* The pause button (lines 647-653): setAutoRefresh(!autoRefresh); the effect of
\* lines 975-983 clears the interval and sets it again only when autoRefresh.
ToggleAutoRefresh ==
  /\ statsHook.mounted
  /\ statsHook' = [statsHook EXCEPT !.autoRefresh = ~@]
  /\ UNCHANGED <<liveHook, simRun, callVars, baseVars>>

\* The interval timer of lines 975-983 fires: fetchStats(true).
StatsIntervalFires ==
  /\ statsHook.mounted
  /\ statsHook.autoRefresh
  /\ StartStatsFetch(TRUE, "interval")

\* The refresh button (lines 669-676) is clicked: refetchStats(), that is
\* fetchStats(true); the button is disabled while statsRefreshing.
StatsRefreshClicked ==
  /\ statsHook.mounted
  /\ ~statsHook.refreshing
  /\ StartStatsFetch(TRUE, "button")

\* The awaited call of fetch c resolves: setStats(data) and the finally block.
StatsFetchResolves(c) ==
  /\ c \in statsHook.inflight
  /\ statsHook' = [statsHook EXCEPT
       !.stats = c.n,
       !.updates = @ + 1,
       !.loading = FALSE,
       !.refreshing = IF c.isRefresh THEN FALSE ELSE @,
       !.inflight = @ \ {c}]
  /\ UNCHANGED <<liveHook, simRun, callVars, baseVars>>

\* The awaited call of fetch c rejects: the catch of line 960 and the finally.
StatsFetchRejects(c) ==
  /\ c \in statsHook.inflight
  /\ statsHook' = [statsHook EXCEPT
       !.error = TRUE,
       !.loading = FALSE,
       !.refreshing = IF c.isRefresh THEN FALSE ELSE @,
       !.inflight = @ \ {c}]
  /\ UNCHANGED <<liveHook, simRun, callVars, baseVars>>

StatsCalls ==
  {[n |-> n, isRefresh |-> b, by |-> by] :
     n \in 1..MaxFetches, b \in BOOLEAN, by \in {"mount", "interval", "button"}}

NextStatsHook ==
  \/ MountDashboardStats
  \/ ToggleAutoRefresh
  \/ StatsIntervalFires
  \/ StatsRefreshClicked
  \/ \E c \in StatsCalls : StatsFetchResolves(c)
  \/ \E c \in StatsCalls : StatsFetchRejects(c)

(***************************************************************************)
(* RequestSimulator: the Run and Stop buttons and handleRunSimulation.     *)
(* Each click on Run starts one activation of handleRunSimulation; a step  *)
(* of the model runs an activation from one await to the next.  The form   *)
(* is filled in (model, query text and tier are set).                      *)
(***************************************************************************)
MaxRuns == 2           \* clicks on Run
MaxCount == 2          \* simulationForm.count

\* What makeOpenAIRequest settles with: a response that is ok, one that is not,
\* or a rejection (network error).
RequestOutcomes == {"accept", "reject", "NetworkError"}

\* The result pushed for request i of an activation (lines 490-562).
SimResult(run, i, outcome) ==
  [run |-> run, requestNumber |-> i,
   decision |-> IF outcome = "accept" THEN "accept" ELSE "reject",
   policyType |-> IF outcome = "NetworkError" THEN "NetworkError" ELSE "None"]

IdleSimulator == [isRunning |-> FALSE, results |-> <<>>, loops |-> <<>>]

\* !isRunning of canRunSimulation (line 583): the Run button is enabled.
canRunSimulation == ~simRun.isRunning

\* A click on Run: handleRunSimulation up to the await of its first request.
RunClicked(count) ==
  /\ canRunSimulation
  /\ Len(simRun.loops) < MaxRuns
  /\ simRun' = [simRun EXCEPT
       !.isRunning = TRUE,
       !.results = <<>>,
       !.loops = Append(@, [pc |-> "request", sent |-> 1, count |-> count])]
  /\ UNCHANGED <<liveHook, statsHook, callVars, baseVars>>

\* A click on Stop (shown while isRunning): handleStopSimulation.
StopClicked ==
  /\ simRun.isRunning
  /\ simRun' = [simRun EXCEPT !.isRunning = FALSE]
  /\ UNCHANGED <<liveHook, statsHook, callVars, baseVars>>

\* The request an activation awaits settles: the result is pushed; then the
\* activation awaits the delay of 200 ms, or (this having been its last request)
\* leaves the loop and runs the finally block.
SimRequestSettles(run, outcome) ==
  /\ run \in 1..Len(simRun.loops)
  /\ simRun.loops[run].pc = "request"
  /\ LET loop == simRun.loops[run]
         pushed == Append(simRun.results, SimResult(run, loop.sent, outcome))
     IN simRun' =
          IF loop.sent < loop.count
          THEN [simRun EXCEPT !.results = pushed, !.loops[run].pc = "delay"]
          ELSE [simRun EXCEPT !.results = pushed, !.loops[run].pc = "done",
                              !.isRunning = FALSE]
  /\ UNCHANGED <<liveHook, statsHook, callVars, baseVars>>

\* The delay between two requests is over: i++, the loop condition (true, the
\* delay being awaited only when i < count - 1; isRunning is not read) and the
\* next request is sent.
SimDelayElapses(run) ==
  /\ run \in 1..Len(simRun.loops)
  /\ simRun.loops[run].pc = "delay"
  /\ simRun' = [simRun EXCEPT !.loops[run].pc = "request", !.loops[run].sent = @ + 1]
  /\ UNCHANGED <<liveHook, statsHook, callVars, baseVars>>

NextSimulator ==
  \/ \E count \in 1..MaxCount : RunClicked(count)
  \/ StopClicked
  \/ \E run \in 1..MaxRuns, outcome \in RequestOutcomes : SimRequestSettles(run, outcome)
  \/ \E run \in 1..MaxRuns : SimDelayElapses(run)


Init ==
  /\ fetch = [q \in Queries |-> IdleFetch]
  /\ istioRequests = Pending
  /\ limitadorRejected = Pending
  /\ authorinoResponses = Pending
  /\ aggregate = NotAggregated
  /\ metrics = <<>>
  /\ summed = NotSummed
  /\ logs = <<>>
  /\ entries = NotParsed
  /\ prometheusResult = PendingPromise(Null)
  /\ liveRequestsResult = PendingPromise(<<>>)
  /\ statusResult = PendingPromise(EmptyStatus)
  /\ response = NoResponse500
  /\ liveCall = IdleLive
  /\ statusCall = IdleStatus
  /\ policyCall = IdlePolicyCall
  /\ proxyCall = IdleProxy
  /\ routeCall = IdleRoute
  /\ liveHook = IdleLiveHook
  /\ statsHook = IdleStatsHook
  /\ simRun = IdleSimulator

\* fetchFromPrometheus, three concurrent calls
SpecFetch == Init /\ [][NextFetch]_vars
\* fetchFromPrometheus where every axios.get that was issued settles in the end:
\* with a response, with an error, or when its timeout of 10 seconds fires
SpecFetchFair ==
  /\ Init /\ [][NextFetch]_vars
  /\ \A q \in Queries : WF_vars(\E r \in Responses : SettleRequest(q, r))
\* sumMetricValues and groupMetricsByNamespace of one result set
SpecSum == Init /\ [][NextSum]_vars
\* fetchPrometheusMetrics
SpecAgg == Init /\ [][NextAgg]_vars
\* parseAccessLogs
SpecParse == Init /\ [][NextParse]_vars
\* GET /dashboard
SpecDash == Init /\ [][NextDash]_vars
\* getRealLiveRequests
SpecLive == Init /\ [][NextLive]_vars
\* getMetricsStatus
SpecStatus == Init /\ [][NextStatus]_vars
\* KuadrantService.getAuthPolicies, getRateLimitPolicies, getTokenRateLimitPolicies
SpecPolicies == Init /\ [][NextPolicies]_vars
\* POST /chat/completions
SpecProxy == Init /\ [][NextProxy]_vars
\* the exposed endpoints but GET /dashboard
SpecApi == Init /\ [][NextProxy \/ NextRoutes]_vars
\* GET /dashboard with its two readers of the gateway log
SpecTraffic == Init /\ [][NextTraffic]_vars
\* useLiveRequests
SpecLiveHook == Init /\ [][NextLiveHook]_vars
\* useDashboardStats
SpecStatsHook == Init /\ [][NextStatsHook]_vars
\* RequestSimulator
SpecSimulator == Init /\ [][NextSimulator]_vars

Next == NextFetch \/ NextSum \/ NextAgg \/ NextParse \/ NextDash
Spec == Init /\ [][Next]_vars

(***************************************************************************)
(* Claims about fetchFromPrometheus (SpecFetch).                           *)
(***************************************************************************)
HasOk(f) == \E i \in 1..Len(f.outcomes) : f.outcomes[i] = "ok"

\* C5: a call never throws; when it has returned, either the last endpoint it
\* tried answered with a success wrapper, no endpoint tried before it did, and
\* the value returned is that answer's result set ([] when it has none), or all
\* three endpoints failed and the value returned is the empty list.
C5_FirstSuccessOrEmpty ==
  \A q \in Queries :
    LET f == fetch[q]
        n == Len(f.outcomes)
    IN /\ f.pc # "threw"
       /\ f.pc = "returned" =>
            \/ /\ n >= 1 /\ f.outcomes[n] = "ok"
               /\ \A i \in 1..(n - 1) : f.outcomes[i] = "fail"
               /\ f.attempts[n] = prometheusEndpoints[n]
               /\ f.response.kind = "success"
               /\ f.ret = (IF f.response.hasResult THEN f.response.result ELSE <<>>)
            \/ /\ n = Len(prometheusEndpoints)
               /\ \A i \in 1..n : f.outcomes[i] = "fail"
               /\ f.ret = <<>>

\* C5 witness: one call has returned the non-empty result set of the third
\* endpoint, another the empty list after a malformed success body of the third.
C5_Witness ==
  \E q1, q2 \in Queries :
    /\ fetch[q1].pc = "returned" /\ fetch[q1].outcomes = <<"fail", "fail", "ok">>
    /\ fetch[q1].ret # <<>>
    /\ fetch[q2].pc = "returned" /\ fetch[q2].outcomes = <<"fail", "fail", "fail">>
    /\ fetch[q2].response.kind = "malformed" /\ fetch[q2].ret = <<>>

\* C6: within a call the endpoints attempted are a prefix of the priority list
\* (in order, each at most once), at most one request is in flight, every attempt
\* but the one in flight has settled, and a success answer is the last thing that
\* happened in the call: nothing is attempted or in flight after it.
C6_SequentialNoRetry ==
  \A q \in Queries :
    LET f == fetch[q]
    IN /\ Len(f.attempts) <= Len(prometheusEndpoints)
       /\ f.attempts = SubSeq(prometheusEndpoints, 1, Len(f.attempts))
       /\ Cardinality(f.inflight) <= 1
       /\ Len(f.attempts) = Len(f.outcomes) + Cardinality(f.inflight)
       /\ HasOk(f) => /\ f.outcomes[Len(f.outcomes)] = "ok"
                      /\ \A i \in 1..(Len(f.outcomes) - 1) : f.outcomes[i] = "fail"
                      /\ f.inflight = {}
                      /\ f.pc = "returned"

\* C6 witness: one call is waiting for the third endpoint after two failures while
\* another has returned on the success of the first endpoint, which is all it tried.
C6_Witness ==
  \E q1, q2 \in Queries :
    /\ fetch[q1].pc = "awaiting" /\ fetch[q1].attempts = prometheusEndpoints
    /\ fetch[q1].inflight = {prometheusEndpoints[3]}
    /\ fetch[q2].pc = "returned" /\ fetch[q2].outcomes = <<"ok">>
    /\ fetch[q2].attempts = <<prometheusEndpoints[1]>>

(***************************************************************************)
(* Claims about the aggregation (SpecSum, SpecAgg).                        *)
(***************************************************************************)
RECURSIVE ParsableSum(_)
\* The sum of the sample values that parseFloat reads as a number.
ParsableSum(ms) ==
  IF ms = <<>> THEN 0
  ELSE LET n == parseFloat(Head(ms).value)
       IN (IF n.nan THEN 0 ELSE n.v) + ParsableSum(Tail(ms))

InNamespace(ms, ns) ==
  SelectSeq(ms, LAMBDA m : (IF m.metric.namespace \in {Undefined, <<>>}
                            THEN <<"unknown">> ELSE m.metric.namespace) = ns)

\* C8: a sample whose value is missing or does not parse as a number adds zero:
\* the sum, and the sum of every namespace, is the sum of the parsable values.
C8_UnparsableCountsZero ==
  summed.done =>
    /\ summed.sum = Num(ParsableSum(metrics))
    /\ \A ns \in DOMAIN summed.byNamespace :
         summed.byNamespace[ns] = Num(ParsableSum(InNamespace(metrics, ns)))

NonNegativeValues(res) ==
  \A i \in 1..Len(res.items) :
    LET n == parseFloat(res.items[i].value) IN ~n.nan /\ n.v >= 0

\* C7: in the aggregate, successRequests is totalRequests - authFailedRequests -
\* rateLimitedRequests, and when every sample value is a non-negative number
\* none of the four counts is negative.
C7_SuccessIdentityAndClamp ==
  (aggregate.done /\ ~aggregate.value.isNull) =>
    LET a == aggregate.value
    IN /\ a.successRequests =
            Sub(Sub(a.totalRequests, a.authFailedRequests), a.rateLimitedRequests)
       /\ ( /\ NonNegativeValues(istioRequests)
            /\ NonNegativeValues(limitadorRejected)
            /\ NonNegativeValues(authorinoResponses) ) =>
            /\ ~Lt(a.totalRequests, Num(0))
            /\ ~Lt(a.successRequests, Num(0))
            /\ ~Lt(a.authFailedRequests, Num(0))
            /\ ~Lt(a.rateLimitedRequests, Num(0))

(***************************************************************************)
(* Claims about GET /dashboard (SpecDash).                                 *)
(***************************************************************************)
\* What the handler has of each source once the promises have settled.
SeenMetrics == IF prometheusResult.status = "fulfilled" THEN prometheusResult.value ELSE Null
SeenRequests == IF liveRequestsResult.status = "fulfilled" THEN liveRequestsResult.value ELSE <<>>
HasTraffic(pm) == ~pm.isNull /\ ~pm.totalRequests.nan /\ pm.totalRequests.v > 0
NumberWith(rs, d) == Cardinality({i \in 1..Len(rs) : rs[i].decision = d})

\* C1: data.source is "live-requests-fallback" when Prometheus gave null or a
\* total of 0, and "prometheus-metrics" when it gave a total above 0.
C1_SourceTag ==
  (response.sent /\ response.http = 200) =>
    /\ (SeenMetrics.isNull \/ SeenMetrics.totalRequests = Num(0)) =>
         response.body.data.source = "live-requests-fallback"
    /\ HasTraffic(SeenMetrics) => response.body.data.source = "prometheus-metrics"

\* C2: the five counts are those of the Prometheus aggregate exactly when it is
\* not null and its total is above 0; otherwise all five are counted over the
\* live-request list.
C2_CountsFromOneSource ==
  (response.sent /\ response.http = 200) =>
    LET d == response.body.data
        pm == SeenMetrics
        live == SeenRequests
    IN IF HasTraffic(pm)
       THEN /\ d.totalRequests = pm.totalRequests
            /\ d.acceptedRequests = pm.successRequests
            /\ d.rejectedRequests = Sub(pm.totalRequests, pm.successRequests)
            /\ d.authFailedRequests = pm.authFailedRequests
            /\ d.rateLimitedRequests = pm.rateLimitedRequests
       ELSE /\ d.totalRequests = Num(Len(live))
            /\ d.acceptedRequests = Num(NumberWith(live, "accept"))
            /\ d.rejectedRequests = Num(NumberWith(live, "reject"))
            /\ d.authFailedRequests =
                 Num(Cardinality({i \in 1..Len(live) : live[i].policyType = <<"AuthPolicy">>}))
            /\ d.rateLimitedRequests =
                 Num(Cardinality({i \in 1..Len(live) : live[i].policyType = <<"RateLimitPolicy">>}))

\* C2 witness: a response built from the live requests (one accepted, one
\* rejected) although Prometheus gave an aggregate, whose total is 0 and whose
\* count of authentication failures is not.
C2_Witness ==
  /\ response.sent /\ response.http = 200
  /\ prometheusResult.status = "fulfilled" /\ ~prometheusResult.value.isNull
  /\ prometheusResult.value.totalRequests = Num(0)
  /\ prometheusResult.value.authFailedRequests = Num(1)
  /\ liveRequestsResult.status = "fulfilled"
  /\ NumberWith(liveRequestsResult.value, "accept") = 1
  /\ NumberWith(liveRequestsResult.value, "reject") = 1
  /\ response.body.data.totalRequests = Num(2)
  /\ response.body.data.authFailedRequests = Num(0)

\* C3: in every response totalRequests == acceptedRequests + rejectedRequests.
C3_TotalIsAcceptedPlusRejected ==
  (response.sent /\ response.http = 200) =>
    LET d == response.body.data
    IN StrictEq(d.totalRequests, Add(d.acceptedRequests, d.rejectedRequests))

\* C4: whichever of the three fetches are rejected, the response is a 200 with
\* success: true; a rejected source counts as null, [] or {}, and what the other
\* sources resolved with is what the response is built from.
C4_SettleIndependently ==
  response.sent =>
    /\ response.http = 200
    /\ response.body.success
    /\ LET d == response.body.data
           ks == d.kuadrantStatus
       IN /\ ks.debugInfo.liveRequestsCount =
               (IF liveRequestsResult.status = "rejected" THEN Num(0)
                ELSE Num(Len(liveRequestsResult.value)))
          /\ IF statusResult.status = "rejected"
             THEN DOMAIN ks = {"istioConnected", "metricsSource", "realData", "dataSource",
                               "notFoundRequests", "debugInfo"}
             ELSE \A k \in DOMAIN statusResult.value : ks[k] = statusResult.value[k]
          /\ IF prometheusResult.status = "rejected"
             THEN /\ d.authorinoStats.authConfigs = 0
                  /\ ks.metricsSource = "live-requests-fallback"
                  /\ d.totalRequests = ks.debugInfo.liveRequestsCount
             ELSE HasTraffic(prometheusResult.value) =>
                    /\ ks.metricsSource = "prometheus-metrics"
                    /\ d.totalRequests = prometheusResult.value.totalRequests

\* C4 witness: the Prometheus fetch and the status fetch are rejected, the
\* live-request fetch resolved with two entries, and the response counts them.
C4_Witness ==
  /\ response.sent /\ response.http = 200 /\ response.body.success
  /\ prometheusResult.status = "rejected"
  /\ statusResult.status = "rejected"
  /\ liveRequestsResult.status = "fulfilled" /\ Len(liveRequestsResult.value) = 2
  /\ response.body.data.totalRequests = Num(2)

(***************************************************************************)
(* Claims about parseAccessLogs (SpecParse).                               *)
(***************************************************************************)
\* C9: every entry of the result has decision "accept" exactly when its
\* statusCode is below 400.
C9_DecisionFollowsStatus ==
  entries.done =>
    \A i \in 1..Len(entries.entries) :
      LET e == entries.entries[i]
      IN (e.decision = "accept") <=> (~e.statusCode.nan /\ e.statusCode.v < 400)

\* The lines of the blob, and the kinds of line that are to be dropped.
LinesOf(blob) == Split(blob, <<>>)
OpensAt(line) == {i \in 1..Len(line) : line[i] = LB \/ line[i] \in ObjTokens}
ClosesAt(line) == {i \in 1..Len(line) : line[i] = RB \/ line[i] \in ObjTokens}
Min(S) == CHOOSE x \in S : \A y \in S : x <= y
Max(S) == CHOOSE x \in S : \A y \in S : x >= y
IsBlank(line) == \A i \in 1..Len(line) : line[i] = WS
\* a common-log-format record whose first field starts the line
StartsWithClf(line) ==
  \E i \in 1..Len(line) :
    line[i] \in ClfTokens /\ \A j \in 1..(i - 1) : line[j] \in {LB, RB, Junk}
\* one kind of brace without the other, the line being no common-log-format record
IsUnbalanced(line) ==
  /\ (OpensAt(line) = {}) # (ClosesAt(line) = {})
  /\ ~StartsWithClf(line)
\* both braces, and what lies between the first '{' and the last '}' is no object
IsInvalidJson(line) ==
  /\ OpensAt(line) # {} /\ ClosesAt(line) # {}
  /\ LET a == Min(OpensAt(line))
         b == Max(ClosesAt(line))
     IN ~ \/ a = b
          \/ /\ a < b /\ line[a] = LB /\ line[b] = RB
             /\ \A i \in (a + 1)..(b - 1) : line[i] = WS
\* no braces, and no common-log-format record
IsNotClf(line) ==
  /\ OpensAt(line) = {} /\ ClosesAt(line) = {}
  /\ ~StartsWithClf(line)
IsDropped(line) == IsBlank(line) \/ IsUnbalanced(line) \/ IsInvalidJson(line) \/ IsNotClf(line)

RECURSIVE EntriesOfLines(_)
\* The entries of each line taken alone, one line after the other.
EntriesOfLines(lines) ==
  IF lines = <<>> THEN <<>>
  ELSE parseAccessLogs(Head(lines)).entries \o EntriesOfLines(Tail(lines))

C11_AtMostHundred ==
  Len(liveCall.ret) <= 100

\* C11 witness: more than 100 entries were parsed and exactly 100 are returned.
C11_Witness ==
  /\ liveCall.pc = "returned"
  /\ Len(liveCall.requests) > 100
  /\ Len(liveCall.ret) = 100

Range(s) == {s[i] : i \in 1..Len(s)}

\* C12: when more than 100 entries were parsed, no entry left out of the result
\* is of a more recent request than an entry of the result.
C12_MostRecentRetained ==
  (liveCall.pc = "returned" /\ Len(liveCall.requests) > 100) =>
    \A dropped \in Range(liveCall.requests) \ Range(liveCall.ret) :
      \A retained \in Range(liveCall.ret) :
        ~(dropped.time > retained.time)

RECURSIVE EntriesOfSucceeded(_)
\* The entries of the pods whose log read gave a text, in the order of the pods.
EntriesOfSucceeded(reads) ==
  IF reads = <<>> THEN <<>>
  ELSE (IF Head(reads).kind = "text" THEN Head(reads).parsed ELSE <<>>)
       \o EntriesOfSucceeded(Tail(reads))

\* C13: a call always returns normally; when it has, the log of every pod listed
\* has been asked for, whatever became of the reads before it, and the result is
\* the entries of all the pods whose read succeeded, cut at 100 entries.
C13_PodFailureIsolated ==
  liveCall.pc = "returned" =>
    /\ Len(liveCall.reads) = Len(liveCall.gatewayPods)
    /\ LET all == EntriesOfSucceeded(liveCall.reads)
       IN /\ Len(liveCall.ret) = (IF Len(all) < 100 THEN Len(all) ELSE 100)
          /\ \A i \in 1..Len(liveCall.ret) : liveCall.ret[i] = all[i]

\* C13 witness: the read of the first pod failed, another read gave a body that is
\* no string or failed too, and the entries of a later pod are in the result.
C13_Witness ==
  /\ liveCall.pc = "returned"
  /\ Len(liveCall.reads) >= 2
  /\ liveCall.reads[1].kind \in {"error", "notstring"}
  /\ \E j \in 2..Len(liveCall.reads) :
       /\ liveCall.reads[j].kind = "text"
       /\ \E k \in 1..Len(liveCall.ret) : liveCall.ret[k].pod = liveCall.gatewayPods[j]

(***************************************************************************)
(* Claims about getMetricsStatus (SpecStatus).                             *)
(***************************************************************************)
ListedRunning(listing) ==
  listing.kind = "success" /\ \E i \in 1..Len(listing.items) : listing.items[i] = "Running"

\* C14: getMetricsStatus never rejects, and the record it returns has the three
\* flags and lastUpdate; limitadorConnected (authorinoConnected) is true exactly
\* when the listing of the Limitador (Authorino) pods succeeded and lists a pod
\* in phase Running, hasRealTraffic exactly when a live request was found: each
\* flag is decided by its own fetch, whatever became of the other two.
C14_StatusFieldsIndependent ==
  /\ statusCall.pc # "rejected"
  /\ {"limitadorConnected", "authorinoConnected", "hasRealTraffic", "lastUpdate"}
       \subseteq DOMAIN statusCall.status
  /\ statusCall.status.lastUpdate = NowISO
  /\ statusCall.pc = "returned" =>
       /\ statusCall.status.limitadorConnected = ListedRunning(statusCall.limitador)
       /\ statusCall.status.authorinoConnected = ListedRunning(statusCall.authorino)
       /\ statusCall.status.hasRealTraffic = (Len(statusCall.recentRequests) > 0)

\* C14 witness: the listing of the Limitador pods failed, and still the status
\* returned says that Authorino runs and that there is traffic.
C14_Witness ==
  /\ statusCall.pc = "returned"
  /\ statusCall.limitador.kind = "error"
  /\ ~statusCall.status.limitadorConnected
  /\ statusCall.status.authorinoConnected
  /\ statusCall.status.hasRealTraffic

(***************************************************************************)
(* Claims about the policy listing (SpecPolicies).                         *)
(***************************************************************************)
\* C15: for each policy kind, the cluster-scoped list call is made exactly when
\* the namespaced one has failed, once, and for the same group, version and
\* plural; a namespaced call that succeeds, even with zero items, ends the
\* function without a cluster call; when both calls have failed the function
\* returns the empty list, and it never throws.
C15_ClusterFallbackOnce ==
  LET c == policyCall
  IN /\ c.pc # "threw"
     /\ Len(c.calls) <= 2
     /\ \A i \in 1..Len(c.calls) :
          c.calls[i] = [scope |-> IF i = 1 THEN "namespaced" ELSE "cluster",
                        group |-> "kuadrant.io",
                        version |-> VersionOf(c.kind),
                        plural |-> PluralOf(c.kind)]
     /\ c.namespaced.kind = "error" => Len(c.calls) = 2
     /\ c.namespaced.kind \in {"success", "noitems"} =>
          Len(c.calls) = 1 /\ c.pc = "returned"
     /\ (c.pc = "returned" /\ c.namespaced.kind = "error" /\ c.cluster.kind = "error")
          => c.policies = <<>>

(***************************************************************************)
(* Claims about POST /chat/completions (SpecProxy).                        *)
(***************************************************************************)
\* C16: every request sent to the gateway carries the Authorization header of
\* the caller unchanged and the Host header made from the model asked for:
\* qwen3.maas.local when its name contains "qwen", simulator.maas.local otherwise.
C16_UpstreamHeaders ==
  proxyCall.upstream.sent =>
    /\ proxyCall.upstream.headers["Authorization"] = proxyCall.authorization
    /\ proxyCall.upstream.headers["Host"] =
         (IF proxyCall.model # Undefined /\ includes(proxyCall.model, <<"q", "w", "e", "n">>)
          THEN "qwen3.maas.local" ELSE "simulator.maas.local")

OwnError == proxyCall.pc = "done" /\ proxyCall.http = 500 /\ proxyCall.body = ProxyErrorBody

\* The body passes on the answer of the gateway: its JSON value, or {error: text}
\* for a text that is no JSON, under data, next to a debug envelope.
PassesOnAnswer ==
  /\ proxyCall.http = proxyCall.statusCode
  /\ {"data", "debug"} \subseteq DOMAIN proxyCall.body
  /\ proxyCall.body.data =
       (IF proxyCall.responseText = JsonText THEN [choices |-> <<>>]
        ELSE [error |-> proxyCall.responseText])
  /\ proxyCall.body.debug.responseStatus = proxyCall.statusCode

\* C17: whenever the gateway has returned a status code, the response has that
\* status code and passes on the answer; the 500 of the proxy itself is sent only
\* when the gateway could not be reached at all.
C17_UpstreamStatusForwarded ==
  /\ (proxyCall.pc = "done" /\ proxyCall.statusCode # 0) => PassesOnAnswer
  /\ OwnError => (proxyCall.upstream.sent /\ proxyCall.statusCode = 0)

\* C17 as amended: whenever the gateway has returned a status code and its body
\* has been read, the response has that status code and passes on the answer;
\* the 500 of the proxy itself is sent exactly when no complete answer was
\* obtained: the request has no body or its model is no string (nothing is sent
\* to the gateway), the gateway was not reached, or reading its body failed.
C17_CompleteAnswerForwarded ==
  /\ (proxyCall.pc = "done" /\ proxyCall.textRead) => PassesOnAnswer
  /\ OwnError <=>
       /\ proxyCall.pc = "done"
       /\ \/ proxyCall.model = NoBody
          \/ proxyCall.authorization \notin {NoHeader, ""} /\ proxyCall.model = NotAString
          \/ proxyCall.upstream.sent /\ ~proxyCall.textRead
  /\ (proxyCall.pc = "done" /\ ~proxyCall.upstream.sent /\ ~OwnError) =>
       proxyCall.http = 401 /\ proxyCall.body = AuthRequiredBody

\* C17 witness: the gateway answered 429 with a text that is no JSON, and the
\* response is a 429 with {error: text} under data.
C17_Witness ==
  /\ proxyCall.pc = "done" /\ proxyCall.textRead
  /\ proxyCall.statusCode = 429 /\ proxyCall.http = 429
  /\ proxyCall.body.data = [error |-> "Too Many Requests"]

(***************************************************************************)
(* Claims about all the endpoints (SpecApi, SpecDash).                     *)
(***************************************************************************)
\* success:false exactly with a status of 400..599
EnvelopeAgrees(http, body) == (body.success = FALSE) <=> (http >= 400 /\ http <= 599)

\* C18: every response sent, by the routes of routes/metrics.ts and by the
\* simulator proxy, carries success:false if and only if its status is 4xx or 5xx.
C18_FailureIffErrorStatus ==
  /\ response.sent => EnvelopeAgrees(response.http, response.body)
  /\ routeCall.pc = "done" => EnvelopeAgrees(routeCall.http, routeCall.body)
  /\ proxyCall.pc = "done" => EnvelopeAgrees(proxyCall.http, proxyCall.body)

\* success:true exactly with a status of 200..299
SuccessIffOk(http, body) == (body.success = TRUE) <=> (http >= 200 /\ http <= 299)

\* C18 as amended: every response carries success:true if and only if its status
\* is 2xx, so none with a status of 4xx or 5xx carries success:true; a response
\* with success:false has a status of 4xx or 5xx unless it is the proxy passing
\* on the answer of the gateway, whose status it keeps.
C18_SuccessIffOkStatus ==
  /\ response.sent =>
       SuccessIffOk(response.http, response.body)
       /\ EnvelopeAgrees(response.http, response.body)
  /\ routeCall.pc = "done" =>
       SuccessIffOk(routeCall.http, routeCall.body)
       /\ EnvelopeAgrees(routeCall.http, routeCall.body)
  /\ proxyCall.pc = "done" =>
       /\ SuccessIffOk(proxyCall.http, proxyCall.body)
       /\ EnvelopeAgrees(proxyCall.http, proxyCall.body)
          \/ (proxyCall.textRead /\ proxyCall.http = proxyCall.statusCode)

\* C18 witness: the proxy has passed on a 302 of the gateway with success:false
\* and GET /requests/:id has answered 404 with success:false.
C18_Witness ==
  /\ proxyCall.pc = "done" /\ proxyCall.http = 302 /\ proxyCall.body.success = FALSE
  /\ routeCall.pc = "done" /\ routeCall.http = 404 /\ routeCall.body.success = FALSE

(***************************************************************************)
(* Claims about the policy counts of the dashboard (SpecDash) and about    *)
(* the text of a JSON line that is parsed (SpecParse).                     *)
(***************************************************************************)
AnsweredWith(rs, codes) ==
  Num(Len(SelectSeq(rs, LAMBDA r : \E c \in codes : StrictEq(r.statusCode, Num(c)))))

\* C19: in a response computed from the live requests, authFailedRequests is the
\* number of live requests answered with 401 or 403 and rateLimitedRequests the
\* number answered with 429.
C19_PolicyCountsByStatus ==
  (response.sent /\ response.http = 200
   /\ response.body.data.kuadrantStatus.metricsSource = "live-requests-fallback") =>
    /\ response.body.data.authFailedRequests = AnsweredWith(SeenRequests, {401, 403})
    /\ response.body.data.rateLimitedRequests = AnsweredWith(SeenRequests, {429})

\* The lines whose first '{' opens a well-formed object that is followed, on the
\* same line, by text with a '}' in it.
ObjectThenClose(line) ==
  /\ OpensAt(line) # {}
  /\ line[Min(OpensAt(line))] \in ObjTokens
  /\ \E j \in ClosesAt(line) : j > Min(OpensAt(line))

\* C20: a line whose first brace-delimited substring is a well-formed object is
\* not dropped when more text with a '}' follows the object: the entry made of
\* that first object is in the result.
C20_FirstObjectParsed ==
  entries.done =>
    \A n \in 1..Len(LinesOf(logs)) :
      LET line == LinesOf(logs)[n]
      IN ObjectThenClose(line) =>
           \E k \in 1..Len(entries.entries) :
             entries.entries[k] = transformLogEntry(JSONObjectOf(line[Min(OpensAt(line))]))

(***************************************************************************)
(* Claims about transformLogEntry and parseCommonLogFormat (SpecParse).    *)
(***************************************************************************)
\* The lines that hold one JSON object and blanks, and the object of such a line.
IsObjectLine(line) ==
  /\ Cardinality({i \in 1..Len(line) : line[i] \in ObjTokens}) = 1
  /\ \A i \in 1..Len(line) : line[i] \in ObjTokens \cup {WS}
ObjectOfLine(line) == JSONObjectOf(line[CHOOSE i \in 1..Len(line) : line[i] \in ObjTokens])

\* The value of the first alias when the object has that key, else of the second
\* alias when it has that key, else the default.
FirstPresent(o, first, second, default) ==
  IF first \in DOMAIN o THEN o[first]
  ELSE IF second \in DOMAIN o THEN o[second] ELSE default

\* The value of the first alias when it is truthy, else of the second alias when
\* it is truthy, else the default.
FirstTruthy(o, first, second, default) ==
  IF first \in DOMAIN o /\ Truthy(o[first]) THEN o[first]
  ELSE IF second \in DOMAIN o /\ Truthy(o[second]) THEN o[second] ELSE default

\* The five normalized fields of the entry, each chosen among its aliases by Pick.
AliasesAgree(e, o, Pick(_, _, _, _)) ==
  /\ e.requestId = Pick(o, "request_id", "requestId", GeneratedId)
  /\ e.statusCode = parseInt(Pick(o, "status_code", "status", <<"2", "0", "0">>))
  /\ e.timestamp = Pick(o, "timestamp", "time", NowISO)
  /\ e.responseTime = parseFloat(Pick(o, "response_time", "duration", <<"0">>))
  /\ e.sourceIP = Pick(o, "source_ip", "remote_addr", Undefined)

\* C21: the entry of a JSON log object has, for each normalized field, the value
\* of its first alias when the object has it, else of its second alias, else the
\* default.
C21_FirstAliasWhenPresent ==
  entries.done =>
    \A i \in 1..Len(LinesOf(logs)) :
      LET line == LinesOf(logs)[i]
      IN IsObjectLine(line) =>
           /\ Len(parseAccessLogs(line).entries) = 1
           /\ AliasesAgree(parseAccessLogs(line).entries[1], ObjectOfLine(line), FirstPresent)

\* C21 amended: the entry of a JSON log object has, for each normalized field, the
\* value of its first alias when that value is truthy, else of its second alias
\* when that is truthy, else the default; {"status_code": "401", "request_id":
\* "abc"} gives requestId "abc", statusCode 401 and decision "reject".
C21_FirstTruthyAlias ==
  entries.done =>
    /\ \A i \in 1..Len(LinesOf(logs)) :
         LET line == LinesOf(logs)[i]
         IN IsObjectLine(line) =>
              /\ Len(parseAccessLogs(line).entries) = 1
              /\ AliasesAgree(parseAccessLogs(line).entries[1], ObjectOfLine(line), FirstTruthy)
    /\ logs = <<ObjSc401>> =>
         /\ Len(entries.entries) = 1
         /\ entries.entries[1].requestId = <<"a", "b", "c">>
         /\ entries.entries[1].statusCode = Num(401)
         /\ entries.entries[1].decision = "reject"

\* C21 witness: a log of two object lines, the first with empty first aliases and
\* the second with a second alias only; the second aliases give the entries.
C21_Witness ==
  /\ entries.done
  /\ logs = <<ObjEmpty, NL, ObjSt200>>
  /\ Len(entries.entries) = 2
  /\ entries.entries[1].requestId = <<"r", "1">>
  /\ entries.entries[1].statusCode = Num(503)
  /\ entries.entries[2].statusCode = Num(200)
  /\ entries.entries[2].requestId = GeneratedId

\* The brace-free lines, and those that begin with a record of the form
\* IP - - [timestamp] "METHOD path PROTOCOL" status size (characters in front of
\* the record without a blank between belong to its first field).
IsBraceFree(line) == \A i \in 1..Len(line) : line[i] \in {WS, Junk} \cup ClfTokens
IsClfLine(line) ==
  \E i \in 1..Len(line) : line[i] \in ClfTokens /\ \A j \in 1..(i - 1) : line[j] = Junk
RecordOf(line) == CHOOSE i \in 1..Len(line) : line[i] \in ClfTokens /\ \A j \in 1..(i - 1) : line[j] = Junk

\* The fields written in the two records.
ClfStatus(tok) == IF tok = Clf200 THEN 200 ELSE 404
ClfMethod(tok) == IF tok = Clf200 THEN <<"GET">> ELSE <<"POST">>
ClfPath(tok) == IF tok = Clf200 THEN <<"/v1/chat/completions">> ELSE <<"/v1/models">>
ClfIP(tok) == IF tok = Clf200 THEN "10.0.0.1" ELSE "10.0.0.2"

TimedOut(f) == f.response.kind = "timeout"

\* C23: when every attempt settles in the end, every call of fetchFromPrometheus
\* returns, it never makes more than three attempts, and an attempt that timed
\* out counts as the failure of its endpoint: the endpoint is not in flight
\* afterwards and is not attempted a second time.
C23_EveryCallReturns ==
  /\ \A q \in Queries : (fetch[q].pc = "awaiting") ~> (fetch[q].pc = "returned")
  /\ [](\A q \in Queries : Len(fetch[q].attempts) <= 3)
  /\ [][\A q \in Queries :
          (fetch'[q] # fetch[q] /\ TimedOut(fetch'[q])) =>
            LET f == fetch'[q]
                e == prometheusEndpoints[Len(fetch[q].attempts)]
            IN /\ e \notin f.inflight
               /\ Cardinality({i \in 1..Len(f.attempts) : f.attempts[i] = e}) = 1
               /\ f.outcomes[Len(fetch[q].attempts)] = "fail"]_vars

\* C23 witness: a call has returned the empty list after three attempts, the
\* last of which timed out.
C23_Witness ==
  \E q \in Queries :
    /\ fetch[q].pc = "returned"
    /\ Len(fetch[q].attempts) = 3
    /\ TimedOut(fetch[q])
    /\ fetch[q].inflight = {}
    /\ fetch[q].ret = <<>>

(***************************************************************************)
(* Claims about useLiveRequests (SpecLiveHook).                            *)
(***************************************************************************)
\* C24: the list of the hook has at most 100 entries and no two of them have the
\* same id; a fetch that resolves puts its entries whose id the list did not
\* hold in front of the list and adds none of the others.
C24_BoundedAndUnique ==
  /\ [](Len(liveHook.requests) <= 100)
  /\ [](\A i, j \in 1..Len(liveHook.requests) :
          liveHook.requests[i].id = liveHook.requests[j].id => i = j)
  /\ [][\A c \in LiveCalls : \A data \in LiveAnswers(c.n) :
          LiveFetchResolves(c, data) =>
            LET prev == liveHook.requests
                held == {prev[i].id : i \in 1..Len(prev)}
                IsFresh(req) == req.id \notin held
            IN liveHook'.requests = KeepHead(SelectSeq(data, IsFresh) \o prev)]_vars

(***************************************************************************)
(* Claims about the routes of routes/metrics.ts (SpecApi).                 *)
(***************************************************************************)
\* C25: whenever getRealLiveRequests has returned a list, empty or not, GET
\* /policy-stats answers 200 with success true, and totalRequests is the sum of
\* approvedRequests and rejectedRequests.
C25_PolicyStatsAnswers ==
  (/\ routeCall.pc = "done"
   /\ routeCall.endpoint = "/policy-stats"
   /\ routeCall.settled.status = "fulfilled") =>
    /\ routeCall.http = 200
    /\ routeCall.body.success
    /\ routeCall.body.data.totalRequests =
         Add(routeCall.body.data.approvedRequests, routeCall.body.data.rejectedRequests)

\* The entries of the list whose request identifier is id.
WithRequestId(requests, id) == {i \in 1..Len(requests) : requests[i].requestId = id}

\* C26: GET /requests/:id answers 200 with an entry whose request identifier is
\* :id whenever the list getRealLiveRequests returned has one, and answers 404
\* only when it has none.
C26_RequestFoundById ==
  (/\ routeCall.pc = "done"
   /\ routeCall.endpoint = "/requests/:id"
   /\ routeCall.settled.status = "fulfilled") =>
    LET requests == routeCall.settled.value
        matching == WithRequestId(requests, routeCall.id)
    IN /\ matching # {} =>
            /\ routeCall.http = 200
            /\ \E i \in matching : routeCall.body.data = requests[i]
       /\ routeCall.http = 404 => matching = {}

(***************************************************************************)
(* Claims about the traffic indicators of GET /dashboard (SpecTraffic).    *)
(***************************************************************************)
\* C27: in a response of GET /dashboard, kuadrantStatus.hasRealTraffic is true
\* exactly when kuadrantStatus.debugInfo.liveRequestsCount is above 0.
C27_TrafficIndicatorsAgree ==
  (response.sent /\ response.http = 200) =>
    LET kuadrantStatus == response.body.data.kuadrantStatus
    IN kuadrantStatus.hasRealTraffic <=>
         Gt(kuadrantStatus.debugInfo.liveRequestsCount, Num(0))

(***************************************************************************)
(* Claims about useDashboardStats (SpecStatsHook).                         *)
(***************************************************************************)
\* C28: the stats on display are never replaced by those of a fetch issued
\* earlier than the fetch they came from, so that what is displayed in the end
\* is what the most recently issued of the resolved fetches returned.
C28_NewestFetchWins ==
  [][statsHook'.stats >= statsHook.stats]_vars

(***************************************************************************)
(* Claims about the request simulator (SpecSimulator).                     *)
(***************************************************************************)
\* The activations of handleRunSimulation that have not ended, and those that
\* have a request yet to send.
ActiveLoops == {run \in 1..Len(simRun.loops) : simRun.loops[run].pc # "done"}
IssuingLoops ==
  {run \in ActiveLoops : simRun.loops[run].sent < simRun.loops[run].count}

\* C29: at most one simulation loop is in progress, and while isRunning is
\* false no loop has a request yet to send, so a new run starts only after the
\* run before it has sent its last request.
C29_OneLoopAtATime ==
  /\ Cardinality(ActiveLoops) <= 1
  /\ ~simRun.isRunning => IssuingLoops = {}

(***************************************************************************)
(* Claims about the scope of the policy listings (SpecPolicies).           *)
(***************************************************************************)
\* C30: the list a policy getter returns comes from one listing: all its
\* policies were transformed from the namespace listing, or all from the cluster
\* listing, and from the cluster listing only when the namespaced call failed.
C30_OneScopeOnly ==
  policyCall.pc = "returned" =>
    LET policies == policyCall.policies
    IN /\ \A i, j \in 1..Len(policies) : policies[i].listing = policies[j].listing
       /\ (\E i \in 1..Len(policies) : policies[i].listing = "cluster")
            => policyCall.namespaced.kind = "error"
====
